---- MODULE Spec2Model ----
(***************************************************************************)
(* The voice translation pipeline of trip-adviser-webapp:                  *)
(*   src/src/models.py, src/src/validators.py,                             *)
(*   src/src/translation_service.py, src/app/main.py.                      *)
(*                                                                         *)
(* Python strings are sequences of one-character strings, so that strip,   *)
(* lower, len, `in' and splitext are computed the way Python computes      *)
(* them.  An Optional value is a sequence of length at most one: None is   *)
(* the empty sequence and a present value x is <<x>>.                      *)
(***************************************************************************)
EXTENDS Integers, Sequences, FiniteSets, TLC

\* ------------------------------------------------------------------------
\* Python built-ins used by the source
\* ------------------------------------------------------------------------

None == <<>>

Some(x) == <<x>>

\* str.isspace() for the characters of the model's alphabet
Whitespace == {" ", "\t", "\n"}

UpperCase == <<"A", "B", "C", "D", "E", "F", "G", "H", "I", "J", "K", "L", "M",
               "N", "O", "P", "Q", "R", "S", "T", "U", "V", "W", "X", "Y", "Z">>

LowerCase == <<"a", "b", "c", "d", "e", "f", "g", "h", "i", "j", "k", "l", "m",
               "n", "o", "p", "q", "r", "s", "t", "u", "v", "w", "x", "y", "z">>

lower_char(c) ==
    IF \E i \in 1..26 : UpperCase[i] = c
    THEN LowerCase[CHOOSE i \in 1..26 : UpperCase[i] = c]
    ELSE c

\* str.lower()
lower(s) == [i \in 1..Len(s) |-> lower_char(s[i])]

SetMin(S) == CHOOSE x \in S : \A y \in S : x <= y

SetMax(S) == CHOOSE x \in S : \A y \in S : y <= x

\* str.strip(): leading and trailing whitespace removed
strip(s) ==
    LET keep == {i \in 1..Len(s) : s[i] \notin Whitespace}
    IN  IF keep = {} THEN <<>> ELSE SubSeq(s, SetMin(keep), SetMax(keep))

\* `sub in s' for strings
contains(sub, s) ==
    \E i \in 0..(Len(s) - Len(sub)) : SubSeq(s, i + 1, i + Len(sub)) = sub

\* str.rfind(c) for a single character, 0-based, -1 when absent
rfind(s, c) ==
    LET at == {i \in 1..Len(s) : s[i] = c}
    IN  IF at = {} THEN -1 ELSE SetMax(at) - 1

\* os.path.splitext(p)[1] (posixpath: sep "/", extsep "."): the suffix from
\* the last dot, unless that dot is in a directory part or only dots precede
\* it in the file name
splitext_ext(p) ==
    LET sepIndex == rfind(p, "/")
        dotIndex == rfind(p, ".")
    IN  IF dotIndex > sepIndex
           /\ \E k \in (sepIndex + 1)..(dotIndex - 1) : p[k + 1] # "."
        THEN SubSeq(p, dotIndex + 1, Len(p))
        ELSE <<>>

\* str.split(): the maximal runs of non-whitespace characters, in order
RECURSIVE split(_)
split(s) ==
    IF s = <<>> THEN <<>>
    ELSE IF s[1] \in Whitespace THEN split(Tail(s))
    ELSE LET stops == {i \in 1..Len(s) : s[i] \in Whitespace}
             stop  == IF stops = {} THEN Len(s) + 1 ELSE SetMin(stops)
         IN  <<SubSeq(s, 1, stop - 1)>> \o split(SubSeq(s, stop, Len(s)))

Digit == <<"0", "1", "2", "3", "4", "5", "6", "7", "8", "9">>

\* str(n) for a natural number n
RECURSIVE str_int(_)
str_int(n) ==
    IF n < 10 THEN <<Digit[n + 1]>>
    ELSE str_int(n \div 10) \o <<Digit[(n % 10) + 1]>>

\* the characters of a sequence of tokens joined by single spaces
RECURSIVE join(_)
join(ws) ==
    IF ws = <<>> THEN <<>>
    ELSE IF Len(ws) = 1 THEN ws[1]
    ELSE ws[1] \o <<" ">> \o join(Tail(ws))

\* ------------------------------------------------------------------------
\* src/src/models.py
\* ------------------------------------------------------------------------

ENGLISH == [code |-> <<"e", "n">>, name |-> <<"E", "n", "g", "l", "i", "s", "h">>]

ITALIAN == [code |-> <<"i", "t">>, name |-> <<"I", "t", "a", "l", "i", "a", "n">>]

SPANISH == [code |-> <<"e", "s">>, name |-> <<"S", "p", "a", "n", "i", "s", "h">>]

FRENCH == [code |-> <<"f", "r">>, name |-> <<"F", "r", "e", "n", "c", "h">>]

GERMAN == [code |-> <<"d", "e">>, name |-> <<"G", "e", "r", "m", "a", "n">>]

\* the members of the enum, in definition order
LanguageCode == <<ENGLISH, ITALIAN, SPANISH, FRENCH, GERMAN>>

\* the names class LanguageCode defines: its members, properties and
\* class methods
LanguageCodeAttributes ==
    {"ENGLISH", "ITALIAN", "SPANISH", "FRENCH", "GERMAN",
     "code", "name", "from_code", "get_supported_codes"}

\* LanguageCode.from_code: the first member whose code is code.lower()
from_code(code) ==
    LET hits == {i \in 1..Len(LanguageCode) : LanguageCode[i].code = lower(code)}
    IN  IF hits = {} THEN None ELSE Some(LanguageCode[SetMin(hits)])

\* get_supported_codes giving the codes of the two paired languages only
get_supported_codes_pairs == {ENGLISH.code, ITALIAN.code}

get_supported_codes == {LanguageCode[i].code : i \in 1..Len(LanguageCode)}

\* TranslationConfig() after __post_init__.  The two length ratios are kept
\* in tenths (3.0 and 0.3) and the confidence floor in hundredths (0.7).
TranslationConfig ==
    [MAX_FILE_SIZE_MB       |-> 25,
     ALLOWED_FORMATS        |-> {"audio/mpeg", "audio/mp3", "audio/wav",
                                 "audio/m4a", "audio/webm", "audio/ogg"},
     MIN_CONFIDENCE_SCORE   |-> 70,
     MIN_TEXT_LENGTH        |-> 3,
     MAX_TEXT_LENGTH        |-> 4096,
     MAX_LENGTH_RATIO       |-> 30,
     MIN_LENGTH_RATIO       |-> 3,
     HALLUCINATION_KEYWORDS |->
        { <<"[", "i", "n", "a", "u", "d", "i", "b", "l", "e", "]">>,
          <<"[", "m", "u", "s", "i", "c", "]">>,
          <<"[", "n", "o", "i", "s", "e", "]">>,
          <<"s", "u", "b", "s", "c", "r", "i", "b", "e">>,
          <<"l", "i", "k", "e", " ", "a", "n", "d", " ",
            "s", "u", "b", "s", "c", "r", "i", "b", "e">>,
          <<"t", "h", "a", "n", "k", " ", "y", "o", "u", " ", "f", "o", "r", " ",
            "w", "a", "t", "c", "h", "i", "n", "g">>,
          <<"p", "l", "e", "a", "s", "e", " ",
            "s", "u", "b", "s", "c", "r", "i", "b", "e">> },
     MAX_RETRIES            |-> 3,
     RETRY_DELAY            |-> 1]

\* TranslationResult with audio_bytes defaulting to b"" instead of None
TranslationResult_empty_audio ==
    [success                |-> FALSE,
     audio_bytes            |-> Some(<<>>),
     original_text          |-> None,
     translated_text        |-> None,
     detected_language      |-> None,
     target_language        |-> None,
     confidence_score       |-> None,
     error_message          |-> None,
     requires_retry         |-> FALSE,
     hallucination_detected |-> FALSE]

\* TranslationResult(success=False) with every other field at its default
TranslationResult ==
    [success                |-> FALSE,
     audio_bytes            |-> None,
     original_text          |-> None,
     translated_text        |-> None,
     detected_language      |-> None,
     target_language        |-> None,
     confidence_score       |-> None,
     error_message          |-> None,
     requires_retry         |-> FALSE,
     hallucination_detected |-> FALSE]

\* ------------------------------------------------------------------------
\* src/src/validators.py
\* ------------------------------------------------------------------------

\* f"{num/den:.2f}": the quotient rounded half-to-even to two decimals.
\* Exact when num/den is a binary fraction (den a power of two, as in the
\* file-size message) or is not halfway between two hundredths.
format_2f(num, den) ==
    LET whole  == num \div den
        scaled == (num % den) * 100
        low    == scaled \div den
        twice  == 2 * (scaled % den)
        cents  == IF twice > den \/ (twice = den /\ low % 2 = 1)
                  THEN low + 1 ELSE low
        units  == IF cents = 100 THEN whole + 1 ELSE whole
        frac   == IF cents = 100 THEN 0 ELSE cents
    IN  str_int(units) \o <<".", Digit[(frac \div 10) + 1], Digit[(frac % 10) + 1]>>

\* validate_text_length with the maximum applied to the trimmed length
validate_text_length_trimmed(config, text) ==
    IF text = <<>> \/ Len(strip(text)) < config.MIN_TEXT_LENGTH
    THEN [is_valid |-> FALSE, error_msg |-> Some(<<"Text too short or empty">>)]
    ELSE IF Len(strip(text)) > config.MAX_TEXT_LENGTH
    THEN [is_valid |-> FALSE,
          error_msg |-> Some(<<"Text exceeds maximum length of ">>
                             \o str_int(config.MAX_TEXT_LENGTH)
                             \o <<" characters">>)]
    ELSE [is_valid |-> TRUE, error_msg |-> None]

validate_text_length(config, text) ==
    IF text = <<>> \/ Len(strip(text)) < config.MIN_TEXT_LENGTH
    THEN [is_valid |-> FALSE, error_msg |-> Some(<<"Text too short or empty">>)]
    ELSE IF Len(text) > config.MAX_TEXT_LENGTH
    THEN [is_valid |-> FALSE,
          error_msg |-> Some(<<"Text exceeds maximum length of ">>
                             \o str_int(config.MAX_TEXT_LENGTH)
                             \o <<" characters">>)]
    ELSE [is_valid |-> TRUE, error_msg |-> None]

\* validate_language_detection testing the confidence before the language
validate_language_detection_confidence_first(config, detected_language, confidence) ==
    IF confidence # None /\ confidence[1] < config.MIN_CONFIDENCE_SCORE
    THEN [is_valid |-> FALSE,
          error_msg |-> Some(<<"Low confidence: ">> \o format_2f(confidence[1], 100))]
    ELSE IF detected_language \notin get_supported_codes
    THEN [is_valid |-> FALSE,
          error_msg |-> Some(<<"Unsupported language detected: ">> \o detected_language)]
    ELSE [is_valid |-> TRUE, error_msg |-> None]

\* validate_language_detection; confidence is None or Some(hundredths)
validate_language_detection(config, detected_language, confidence) ==
    IF detected_language \notin get_supported_codes
    THEN [is_valid |-> FALSE,
          error_msg |-> Some(<<"Unsupported language detected: ">> \o detected_language)]
    ELSE IF confidence # None /\ confidence[1] < config.MIN_CONFIDENCE_SCORE
    THEN [is_valid |-> FALSE,
          error_msg |-> Some(<<"Low confidence: ">> \o format_2f(confidence[1], 100))]
    ELSE [is_valid |-> TRUE, error_msg |-> None]

\* the overlapping three-word windows of check 4, each joined by spaces
trigrams(words) ==
    [i \in 1..(Len(words) - 2) |-> join(SubSeq(words, i, i + 2))]

\* check_hallucination with the keywords looked for before the length ratio
check_hallucination_keyword_first(config, original_text, translated_text, detected_language, keyword_order) ==
    LET original_len     == Len(strip(original_text))
        translated_len   == Len(strip(translated_text))
        translated_lower == lower(translated_text)
        hits  == {i \in 1..Len(keyword_order) :
                     contains(lower(keyword_order[i]), translated_lower)}
        words == split(translated_text)
        grams == trigrams(words)
        unique_trigrams == {grams[i] : i \in 1..Len(grams)}
    IN  IF hits # {}
        THEN [is_hallucination |-> TRUE,
              reason |-> Some(<<"Hallucination keyword detected: '">>
                              \o keyword_order[SetMin(hits)] \o <<"'">>)]
        ELSE IF original_len > 0
           /\ 10 * translated_len > config.MAX_LENGTH_RATIO * original_len
        THEN [is_hallucination |-> TRUE,
              reason |-> Some(<<"Translation suspiciously long (ratio: ">>
                              \o format_2f(translated_len, original_len)
                              \o <<")">>)]
        ELSE IF original_len > 0
                /\ 10 * translated_len < config.MIN_LENGTH_RATIO * original_len
        THEN [is_hallucination |-> TRUE,
              reason |-> Some(<<"Translation suspiciously short (ratio: ">>
                              \o format_2f(translated_len, original_len)
                              \o <<")">>)]
        ELSE IF original_len > 20
                /\ lower(strip(original_text)) = lower(strip(translated_text))
        THEN [is_hallucination |-> TRUE,
              reason |-> Some(<<"Translation identical to original">>)]
        ELSE IF Len(words) > 5
                /\ 10 * Cardinality(unique_trigrams) < 7 * Len(grams)
        THEN [is_hallucination |-> TRUE,
              reason |-> Some(<<"Excessive repetition detected">>)]
        ELSE [is_hallucination |-> FALSE, reason |-> None]

\* check_hallucination with the two ratio bounds themselves flagged
check_hallucination_ratio_inclusive(config, original_text, translated_text, detected_language, keyword_order) ==
    LET original_len     == Len(strip(original_text))
        translated_len   == Len(strip(translated_text))
        translated_lower == lower(translated_text)
        hits  == {i \in 1..Len(keyword_order) :
                     contains(lower(keyword_order[i]), translated_lower)}
        words == split(translated_text)
        grams == trigrams(words)
        unique_trigrams == {grams[i] : i \in 1..Len(grams)}
    IN  IF original_len > 0
           /\ 10 * translated_len >= config.MAX_LENGTH_RATIO * original_len
        THEN [is_hallucination |-> TRUE,
              reason |-> Some(<<"Translation suspiciously long (ratio: ">>
                              \o format_2f(translated_len, original_len)
                              \o <<")">>)]
        ELSE IF original_len > 0
                /\ 10 * translated_len <= config.MIN_LENGTH_RATIO * original_len
        THEN [is_hallucination |-> TRUE,
              reason |-> Some(<<"Translation suspiciously short (ratio: ">>
                              \o format_2f(translated_len, original_len)
                              \o <<")">>)]
        ELSE IF hits # {}
        THEN [is_hallucination |-> TRUE,
              reason |-> Some(<<"Hallucination keyword detected: '">>
                              \o keyword_order[SetMin(hits)] \o <<"'">>)]
        ELSE IF original_len > 20
                /\ lower(strip(original_text)) = lower(strip(translated_text))
        THEN [is_hallucination |-> TRUE,
              reason |-> Some(<<"Translation identical to original">>)]
        ELSE IF Len(words) > 5
                /\ 10 * Cardinality(unique_trigrams) < 7 * Len(grams)
        THEN [is_hallucination |-> TRUE,
              reason |-> Some(<<"Excessive repetition detected">>)]
        ELSE [is_hallucination |-> FALSE, reason |-> None]

\* check_hallucination looking for the keywords in the text as it is
check_hallucination_case_sensitive(config, original_text, translated_text, detected_language, keyword_order) ==
    LET original_len     == Len(strip(original_text))
        translated_len   == Len(strip(translated_text))
        translated_lower == translated_text
        hits  == {i \in 1..Len(keyword_order) :
                     contains(lower(keyword_order[i]), translated_lower)}
        words == split(translated_text)
        grams == trigrams(words)
        unique_trigrams == {grams[i] : i \in 1..Len(grams)}
    IN  IF original_len > 0
           /\ 10 * translated_len > config.MAX_LENGTH_RATIO * original_len
        THEN [is_hallucination |-> TRUE,
              reason |-> Some(<<"Translation suspiciously long (ratio: ">>
                              \o format_2f(translated_len, original_len)
                              \o <<")">>)]
        ELSE IF original_len > 0
                /\ 10 * translated_len < config.MIN_LENGTH_RATIO * original_len
        THEN [is_hallucination |-> TRUE,
              reason |-> Some(<<"Translation suspiciously short (ratio: ">>
                              \o format_2f(translated_len, original_len)
                              \o <<")">>)]
        ELSE IF hits # {}
        THEN [is_hallucination |-> TRUE,
              reason |-> Some(<<"Hallucination keyword detected: '">>
                              \o keyword_order[SetMin(hits)] \o <<"'">>)]
        ELSE IF original_len > 20
                /\ lower(strip(original_text)) = lower(strip(translated_text))
        THEN [is_hallucination |-> TRUE,
              reason |-> Some(<<"Translation identical to original">>)]
        ELSE IF Len(words) > 5
                /\ 10 * Cardinality(unique_trigrams) < 7 * Len(grams)
        THEN [is_hallucination |-> TRUE,
              reason |-> Some(<<"Excessive repetition detected">>)]
        ELSE [is_hallucination |-> FALSE, reason |-> None]

\* check_hallucination without the length condition of check 3
check_hallucination_identical_any_length(config, original_text, translated_text, detected_language, keyword_order) ==
    LET original_len     == Len(strip(original_text))
        translated_len   == Len(strip(translated_text))
        translated_lower == lower(translated_text)
        hits  == {i \in 1..Len(keyword_order) :
                     contains(lower(keyword_order[i]), translated_lower)}
        words == split(translated_text)
        grams == trigrams(words)
        unique_trigrams == {grams[i] : i \in 1..Len(grams)}
    IN  IF original_len > 0
           /\ 10 * translated_len > config.MAX_LENGTH_RATIO * original_len
        THEN [is_hallucination |-> TRUE,
              reason |-> Some(<<"Translation suspiciously long (ratio: ">>
                              \o format_2f(translated_len, original_len)
                              \o <<")">>)]
        ELSE IF original_len > 0
                /\ 10 * translated_len < config.MIN_LENGTH_RATIO * original_len
        THEN [is_hallucination |-> TRUE,
              reason |-> Some(<<"Translation suspiciously short (ratio: ">>
                              \o format_2f(translated_len, original_len)
                              \o <<")">>)]
        ELSE IF hits # {}
        THEN [is_hallucination |-> TRUE,
              reason |-> Some(<<"Hallucination keyword detected: '">>
                              \o keyword_order[SetMin(hits)] \o <<"'">>)]
        ELSE IF original_len > 0
                /\ lower(strip(original_text)) = lower(strip(translated_text))
        THEN [is_hallucination |-> TRUE,
              reason |-> Some(<<"Translation identical to original">>)]
        ELSE IF Len(words) > 5
                /\ 10 * Cardinality(unique_trigrams) < 7 * Len(grams)
        THEN [is_hallucination |-> TRUE,
              reason |-> Some(<<"Excessive repetition detected">>)]
        ELSE [is_hallucination |-> FALSE, reason |-> None]

\* check_hallucination flagging also a share of distinct windows of 0.7 itself
check_hallucination_repetition_inclusive(config, original_text, translated_text, detected_language, keyword_order) ==
    LET original_len     == Len(strip(original_text))
        translated_len   == Len(strip(translated_text))
        translated_lower == lower(translated_text)
        hits  == {i \in 1..Len(keyword_order) :
                     contains(lower(keyword_order[i]), translated_lower)}
        words == split(translated_text)
        grams == trigrams(words)
        unique_trigrams == {grams[i] : i \in 1..Len(grams)}
    IN  IF original_len > 0
           /\ 10 * translated_len > config.MAX_LENGTH_RATIO * original_len
        THEN [is_hallucination |-> TRUE,
              reason |-> Some(<<"Translation suspiciously long (ratio: ">>
                              \o format_2f(translated_len, original_len)
                              \o <<")">>)]
        ELSE IF original_len > 0
                /\ 10 * translated_len < config.MIN_LENGTH_RATIO * original_len
        THEN [is_hallucination |-> TRUE,
              reason |-> Some(<<"Translation suspiciously short (ratio: ">>
                              \o format_2f(translated_len, original_len)
                              \o <<")">>)]
        ELSE IF hits # {}
        THEN [is_hallucination |-> TRUE,
              reason |-> Some(<<"Hallucination keyword detected: '">>
                              \o keyword_order[SetMin(hits)] \o <<"'">>)]
        ELSE IF original_len > 20
                /\ lower(strip(original_text)) = lower(strip(translated_text))
        THEN [is_hallucination |-> TRUE,
              reason |-> Some(<<"Translation identical to original">>)]
        ELSE IF Len(words) > 5
                /\ 10 * Cardinality(unique_trigrams) <= 7 * Len(grams)
        THEN [is_hallucination |-> TRUE,
              reason |-> Some(<<"Excessive repetition detected">>)]
        ELSE [is_hallucination |-> FALSE, reason |-> None]

\* check_hallucination.  keyword_order is the order in which the for loop
\* visits the set HALLUCINATION_KEYWORDS (a sequence enumerating it).
\* translated_len / original_len > 3.0 is 10 * translated_len > 30 *
\* original_len, and likewise for 0.3 and for the 0.7 of check 4: the
\* float comparisons agree with the exact ones for lengths of this size.
check_hallucination(config, original_text, translated_text, detected_language, keyword_order) ==
    LET original_len     == Len(strip(original_text))
        translated_len   == Len(strip(translated_text))
        translated_lower == lower(translated_text)
        hits  == {i \in 1..Len(keyword_order) :
                     contains(lower(keyword_order[i]), translated_lower)}
        words == split(translated_text)
        grams == trigrams(words)
        unique_trigrams == {grams[i] : i \in 1..Len(grams)}
    IN  IF original_len > 0
           /\ 10 * translated_len > config.MAX_LENGTH_RATIO * original_len
        THEN [is_hallucination |-> TRUE,
              reason |-> Some(<<"Translation suspiciously long (ratio: ">>
                              \o format_2f(translated_len, original_len)
                              \o <<")">>)]
        ELSE IF original_len > 0
                /\ 10 * translated_len < config.MIN_LENGTH_RATIO * original_len
        THEN [is_hallucination |-> TRUE,
              reason |-> Some(<<"Translation suspiciously short (ratio: ">>
                              \o format_2f(translated_len, original_len)
                              \o <<")">>)]
        ELSE IF hits # {}
        THEN [is_hallucination |-> TRUE,
              reason |-> Some(<<"Hallucination keyword detected: '">>
                              \o keyword_order[SetMin(hits)] \o <<"'">>)]
        ELSE IF original_len > 20
                /\ lower(strip(original_text)) = lower(strip(translated_text))
        THEN [is_hallucination |-> TRUE,
              reason |-> Some(<<"Translation identical to original">>)]
        ELSE IF Len(words) > 5
                /\ 10 * Cardinality(unique_trigrams) < 7 * Len(grams)
        THEN [is_hallucination |-> TRUE,
              reason |-> Some(<<"Excessive repetition detected">>)]
        ELSE [is_hallucination |-> FALSE, reason |-> None]

\* one order in which a set can be iterated
RECURSIVE an_order(_)
an_order(S) ==
    IF S = {} THEN <<>>
    ELSE LET x == CHOOSE x \in S : TRUE
         IN  <<x>> \o an_order(S \ {x})

\* the extensions AudioFileValidator.validate accepts
allowed_extensions ==
    { <<".", "m", "p", "3">>, <<".", "w", "a", "v">>, <<".", "m", "4", "a">>,
      <<".", "w", "e", "b", "m">>, <<".", "o", "g", "g">>, <<".", "f", "l", "a", "c">> }

\* validate rejecting a file of the maximum size itself
validate_size_exclusive(config, audio_file) ==
    LET file_size      == audio_file.size
        max_size_bytes == config.MAX_FILE_SIZE_MB * 1024 * 1024
        file_ext       == lower(splitext_ext(audio_file.filename))
    IN  IF audio_file.filename = <<>>
        THEN [is_valid |-> FALSE, error_msg |-> Some(<<"No audio file provided">>)]
        ELSE IF audio_file.content_type \notin config.ALLOWED_FORMATS
        THEN [is_valid |-> FALSE,
              error_msg |-> Some(<<"Unsupported format: ", audio_file.content_type>>)]
        ELSE IF file_size >= max_size_bytes
        THEN [is_valid |-> FALSE,
              error_msg |-> Some(<<"File too large: ">>
                                 \o format_2f(file_size, 1024 * 1024)
                                 \o <<"MB">>)]
        ELSE IF file_size = 0
        THEN [is_valid |-> FALSE, error_msg |-> Some(<<"Audio file is empty">>)]
        ELSE IF file_ext \notin allowed_extensions
        THEN [is_valid |-> FALSE,
              error_msg |-> Some(<<"Invalid extension: ">> \o file_ext)]
        ELSE [is_valid |-> TRUE, error_msg |-> None]

\* validate with the extension checked before the content type and the size
validate_extension_first(config, audio_file) ==
    LET file_size      == audio_file.size
        max_size_bytes == config.MAX_FILE_SIZE_MB * 1024 * 1024
        file_ext       == lower(splitext_ext(audio_file.filename))
    IN  IF audio_file.filename = <<>>
        THEN [is_valid |-> FALSE, error_msg |-> Some(<<"No audio file provided">>)]
        ELSE IF file_ext \notin allowed_extensions
        THEN [is_valid |-> FALSE,
              error_msg |-> Some(<<"Invalid extension: ">> \o file_ext)]
        ELSE IF audio_file.content_type \notin config.ALLOWED_FORMATS
        THEN [is_valid |-> FALSE,
              error_msg |-> Some(<<"Unsupported format: ", audio_file.content_type>>)]
        ELSE IF file_size > max_size_bytes
        THEN [is_valid |-> FALSE,
              error_msg |-> Some(<<"File too large: ">>
                                 \o format_2f(file_size, 1024 * 1024)
                                 \o <<"MB">>)]
        ELSE IF file_size = 0
        THEN [is_valid |-> FALSE, error_msg |-> Some(<<"Audio file is empty">>)]
        ELSE [is_valid |-> TRUE, error_msg |-> None]

\* AudioFileValidator.validate: the (is_valid, error_msg) it returns
validate(config, audio_file) ==
    LET file_size      == audio_file.size
        max_size_bytes == config.MAX_FILE_SIZE_MB * 1024 * 1024
        file_ext       == lower(splitext_ext(audio_file.filename))
    IN  IF audio_file.filename = <<>>
        THEN [is_valid |-> FALSE, error_msg |-> Some(<<"No audio file provided">>)]
        ELSE IF audio_file.content_type \notin config.ALLOWED_FORMATS
        THEN [is_valid |-> FALSE,
              error_msg |-> Some(<<"Unsupported format: ", audio_file.content_type>>)]
        ELSE IF file_size > max_size_bytes
        THEN [is_valid |-> FALSE,
              error_msg |-> Some(<<"File too large: ">>
                                 \o format_2f(file_size, 1024 * 1024)
                                 \o <<"MB">>)]
        ELSE IF file_size = 0
        THEN [is_valid |-> FALSE, error_msg |-> Some(<<"Audio file is empty">>)]
        ELSE IF file_ext \notin allowed_extensions
        THEN [is_valid |-> FALSE,
              error_msg |-> Some(<<"Invalid extension: ">> \o file_ext)]
        ELSE [is_valid |-> TRUE, error_msg |-> None]

\* validate without the seek(0) of line 106: the cursor stays at the end
validate_seek_end(config, audio_file) ==
    IF audio_file.filename = <<>>
       \/ audio_file.content_type \notin config.ALLOWED_FORMATS
    THEN audio_file.pos
    ELSE audio_file.size

\* AudioFileValidator.validate: where it leaves the read cursor of the file.
\* The two early returns do not touch the stream; every later path has done
\* seek(0, SEEK_END), tell(), seek(0).
validate_seek(config, audio_file) ==
    IF audio_file.filename = <<>>
       \/ audio_file.content_type \notin config.ALLOWED_FORMATS
    THEN audio_file.pos
    ELSE 0

\* ------------------------------------------------------------------------
\* src/src/translation_service.py
\* ------------------------------------------------------------------------

\* the three remote operations behind the _with_retry methods
Ops == {"transcribe", "translate", "tts"}

\* subclasses of openai.OpenAIError a request can raise
OpenAIError ==
    {"APIConnectionError", "RateLimitError", "BadRequestError", "AuthenticationError"}

\* an exception object: its class, str(e), and for tenacity.RetryError the
\* exception of the last attempt
Exc(cls, text) == [cls |-> cls, text |-> text, last_attempt |-> None]

\* tenacity.RetryError(last_attempt), raised from the last attempt's exception
RetryError(e) ==
    [cls |-> "RetryError", text |-> "RetryError[<Future raised>]", last_attempt |-> Some(e)]

\* the arguments of tenacity.retry on _transcribe_with_retry
transcribe_retry ==
    [stop_after_attempt |-> 3,
     wait_exponential   |-> [multiplier |-> 1, min |-> 2, max |-> 10],
     retry_if_exception_type |-> OpenAIError \cup {"ConnectionError"}]

\* _translate_with_retry stopping after attempt 4
translate_retry_four ==
    [stop_after_attempt |-> 4,
     wait_exponential   |-> [multiplier |-> 1, min |-> 2, max |-> 10],
     retry_if_exception_type |-> OpenAIError \cup {"ConnectionError"}]

\* the arguments of tenacity.retry on _translate_with_retry
translate_retry ==
    [stop_after_attempt |-> 3,
     wait_exponential   |-> [multiplier |-> 1, min |-> 2, max |-> 10],
     retry_if_exception_type |-> OpenAIError \cup {"ConnectionError"}]

\* _text_to_speech_with_retry retrying on every Exception
tts_retry_any ==
    [stop_after_attempt |-> 3,
     wait_exponential   |-> [multiplier |-> 1, min |-> 2, max |-> 10],
     retry_if_exception_type |-> OpenAIError \cup {"ConnectionError", "ValueError"}]

\* the arguments of tenacity.retry on _text_to_speech_with_retry
tts_retry ==
    [stop_after_attempt |-> 3,
     wait_exponential   |-> [multiplier |-> 1, min |-> 2, max |-> 10],
     retry_if_exception_type |-> OpenAIError \cup {"ConnectionError"}]

retry_of(op) ==
    CASE op = "transcribe" -> transcribe_retry
      [] op = "translate"  -> translate_retry
      [] op = "tts"        -> tts_retry

Maximum(a, b) == IF a >= b THEN a ELSE b

Minimum(a, b) == IF a <= b THEN a ELSE b

\* wait_exponential with the exponent taken from the attempt number itself
wait_exponential_doubled(w, attempt_number) ==
    Maximum(Maximum(0, w.min), Minimum(w.multiplier * 2 ^ attempt_number, w.max))

\* tenacity.wait_exponential.__call__: multiplier * 2 ** (attempt_number - 1),
\* clamped to [min, max]; attempt_number is the attempt that just failed
wait_exponential(w, attempt_number) ==
    Maximum(Maximum(0, w.min), Minimum(w.multiplier * 2 ^ (attempt_number - 1), w.max))

\* tenacity raising when an attempt answers after earlier ones failed
after_attempt_recovered_raises(policy, attempt_number, outcome) ==
    IF outcome.ok
    THEN IF attempt_number > 1
         THEN [do |-> "raise", exc |-> Some(Exc("ValueError", "recovered"))]
         ELSE [do |-> "return", exc |-> None]
    ELSE IF outcome.exc[1].cls \notin policy.retry_if_exception_type
    THEN [do |-> "raise", exc |-> outcome.exc]
    ELSE IF attempt_number >= policy.stop_after_attempt
    THEN [do |-> "raise", exc |-> Some(RetryError(outcome.exc[1]))]
    ELSE [do |-> "sleep", exc |-> outcome.exc]

\* tenacity's decision after an attempt (Retrying.iter): the value is
\* returned, the exception is re-raised as it is when the retry predicate
\* rejects it, RetryError is raised when the stop condition holds, and
\* otherwise the call sleeps and is attempted again
after_attempt(policy, attempt_number, outcome) ==
    IF outcome.ok
    THEN [do |-> "return", exc |-> None]
    ELSE IF outcome.exc[1].cls \notin policy.retry_if_exception_type
    THEN [do |-> "raise", exc |-> outcome.exc]
    ELSE IF attempt_number >= policy.stop_after_attempt
    THEN [do |-> "raise", exc |-> Some(RetryError(outcome.exc[1]))]
    ELSE [do |-> "sleep", exc |-> outcome.exc]

\* process_translation with the second except clause missing
except_openai_only(e) ==
    IF e.cls \in OpenAIError
    THEN Some([TranslationResult EXCEPT
                  !.error_message = Some(<<"Service error: ", e.text>>)])
    ELSE None

\* process_translation putting str(e) in the message of every failure
except_with_text(e) ==
    IF e.cls \in OpenAIError
    THEN Some([TranslationResult EXCEPT
                  !.error_message = Some(<<"Service error: ", e.text>>)])
    ELSE Some([TranslationResult EXCEPT
                  !.error_message = Some(<<"Unexpected error: ", e.text>>)])

\* process_translation asking the caller to retry after any exception
except_retry(e) ==
    IF e.cls \in OpenAIError
    THEN Some([TranslationResult EXCEPT
                  !.error_message = Some(<<"Service error: ", e.text>>),
                  !.requires_retry = TRUE])
    ELSE Some([TranslationResult EXCEPT
                  !.error_message = Some(<<"Unexpected error. Please try again.">>),
                  !.requires_retry = TRUE])

\* the except clauses of process_translation: the result returned for an
\* exception raised inside the try block, None if no clause catches it.
\* Every class of the model derives from Exception.
except(e) ==
    IF e.cls \in OpenAIError
    THEN Some([TranslationResult EXCEPT
                  !.error_message = Some(<<"Service error: ", e.text>>)])
    ELSE Some([TranslationResult EXCEPT
                  !.error_message = Some(<<"Unexpected error. Please try again.">>)])

\* the validation failure asking the caller to retry
validation_failed_retry(error_msg) ==
    [TranslationResult EXCEPT !.error_message = error_msg, !.requires_retry = TRUE]

\* line 116: the result returned when the file validator rejects the file
validation_failed(error_msg) ==
    [TranslationResult EXCEPT !.error_message = error_msg]

\* lines 142-148: the result returned when validate_text_length rejects the
\* transcript; error_msg is the validator's message
text_length_failed(error_msg, detected_language, original_text) ==
    [TranslationResult EXCEPT
        !.error_message     = Some(error_msg \o <<". Please speak clearly.">>),
        !.detected_language = Some(detected_language),
        !.original_text     = Some(original_text),
        !.requires_retry    = TRUE]

\* lines 153-159: the result returned when validate_language_detection
\* rejects the detected language
language_failed(error_msg, detected_language, original_text) ==
    [TranslationResult EXCEPT
        !.error_message     = Some(error_msg \o <<". Supported: English, Italian.">>),
        !.detected_language = Some(detected_language),
        !.original_text     = Some(original_text),
        !.requires_retry    = TRUE]

\* lines 185-194: the result returned when check_hallucination flags the
\* translation
quality_failed(reason, original_text, translated_text, detected_language, target_lang_name) ==
    [TranslationResult EXCEPT
        !.error_message          = Some(<<"Quality issue: ">> \o reason \o <<". Try again.">>),
        !.original_text          = Some(original_text),
        !.translated_text        = Some(translated_text),
        !.detected_language      = Some(detected_language),
        !.target_language        = Some(target_lang_name),
        !.requires_retry         = TRUE,
        !.hallucination_detected = TRUE]

\* lines 202-209: the result returned after the speech was synthesized
completed(audio_bytes, original_text, translated_text, detected_language, target_lang_name) ==
    [TranslationResult EXCEPT
        !.success           = TRUE,
        !.audio_bytes       = Some(audio_bytes),
        !.original_text     = Some(original_text),
        !.translated_text   = Some(translated_text),
        !.detected_language = Some(detected_language),
        !.target_language   = Some(target_lang_name)]

\* FileStorage.read(): the bytes from the read cursor to the end of the
\* stream, as the span of the payload they cover
read(audio_file) ==
    [offset |-> audio_file.pos, length |-> audio_file.size - audio_file.pos]

\* line 131, LanguageCode.from_name_or_code(detected_language): the class
\* has no attribute of that name, so the attribute lookup raises
\* AttributeError before anything is called
lookup_from_name_or_code ==
    IF "from_name_or_code" \in LanguageCodeAttributes
    THEN None
    ELSE Some(Exc("AttributeError",
                  "type object 'LanguageCode' has no attribute 'from_name_or_code'"))

\* self.language_pairs, built by __init__: the target for a detected code
language_pairs ==
    [c \in {ENGLISH.code, ITALIAN.code} |-> IF c = ENGLISH.code THEN ITALIAN ELSE ENGLISH]

\* get_target_language falling back to Italian
get_target_language_default_italian(detected_code) ==
    IF detected_code \in DOMAIN language_pairs
    THEN language_pairs[detected_code]
    ELSE ITALIAN

\* get_target_language: language_pairs.get(detected_code), every member of
\* the enum being truthy, else LanguageCode.ENGLISH
get_target_language(detected_code) ==
    IF detected_code \in DOMAIN language_pairs
    THEN language_pairs[detected_code]
    ELSE ENGLISH

\* lines 168-172: the keyword arguments of the call of _translate_with_retry
translate_kwargs(original_text, detected_language, target_lang_name) ==
    [text        |-> original_text,
     source_lang |-> detected_language,
     target_lang |-> target_lang_name]

\* the steps of process_translation in the order of its code: Step 1
\* (validate the file), Step 2 (transcribe), Step 3 (validate the
\* transcription), Steps 4 and 5 (validate the language, determine the
\* target), Step 6 (translate), Step 7 (check hallucination), Step 8
\* (text to speech)
Stages ==
    <<"Validating", "Transcribing", "CheckingTranscriptLength", "ResolvingLanguages",
      "Translating", "CheckingQuality", "Synthesizing">>

\* ------------------------------------------------------------------------
\* State
\* ------------------------------------------------------------------------

VARIABLES
    entry,           \* the method under execution: "process_translation" or,
                     \* when a _with_retry method is called on its own, its Op
    config,          \* TranslationService.config
    audio_file,      \* the FileStorage passed in: filename, content_type,
                     \* size of the stream and position of its read cursor
    whisper,         \* what the transcription endpoint answers: text, language
    chat,            \* what the chat completion answers: message content
    speech,          \* what the speech endpoint answers: response content
    pc,              \* "start", "calling", "sleeping", then "done" (a result
                     \* was returned), "returned" or "raised"
    cur,             \* the remote operation being called, "none" outside one
    attempt_number,  \* tenacity's retry_state.attempt_number
    attempts,        \* requests sent so far, per remote operation
    sleeps,          \* the backoff sleeps taken so far, in seconds
    errors,          \* the requests that raised so far, in order: the
                     \* operation and the exception
    audio_data,      \* the tuple handed to _transcribe_with_retry
    transcription,   \* the value _transcribe_with_retry returned
    ret,             \* the value a _with_retry method called on its own returned
    caught,          \* the exception an except clause of process_translation
                     \* handled
    raised,          \* the exception that left the method under execution
    result,          \* the TranslationResult returned by process_translation
    stages,          \* the steps of process_translation entered so far, in
                     \* order, "Done" being the return of a result
    confidence,      \* the confidence handed to validate_language_detection
    request,         \* the request the /translate handler serves: the names
                     \* of its file parts; None when process_translation is
                     \* called without the handler
    response,        \* the response the handler returned
    others           \* the invocations of process_translation that are in
                     \* progress in other threads: the locals of each

vars == <<entry, config, audio_file, whisper, chat, speech, pc, cur,
          attempt_number, attempts, sleeps, errors, audio_data, transcription,
          ret, caught, raised, result, stages, confidence, request, response,
          others>>

\* ------------------------------------------------------------------------
\* Inputs
\* ------------------------------------------------------------------------

\* spaces put around a transcript by the inputs below
MaxPad == 1

MaxBytes == TranslationConfig.MAX_FILE_SIZE_MB * 1024 * 1024

spaces(n) == [i \in 1..n |-> " "]

Filenames ==
    { <<>>,
      <<"t", "e", "s", "t", ".", "m", "p", "3">>,
      <<"T", "E", "S", "T", ".", "M", "P", "3">>,
      <<"t", "e", "s", "t", ".", "t", "x", "t">>,
      <<".", "m", "p", "3">> }

ContentTypes == {"audio/mpeg", "text/plain"}

Sizes == {0, 18, MaxBytes, MaxBytes + 1}

AudioFiles ==
    [filename : Filenames, content_type : ContentTypes, size : Sizes, pos : {0}]

Texts ==
    { <<>>,
      <<"H", "i">>,
      <<"H", "e", "l", "l", "o", ",", " ", "h", "o", "w", " ", "a", "r", "e", " ",
        "y", "o", "u", " ", "t", "o", "d", "a", "y", "?">> }

Labels ==
    { <<"e", "n", "g", "l", "i", "s", "h">>,
      <<"E", "N">>,
      <<"I", "t", "a", "l", "i", "a", "n">>,
      <<"r", "u", "s", "s", "i", "a", "n">> }

Transcriptions ==
    {[text |-> spaces(n) \o t \o spaces(n), language |-> l] :
        n \in 0..MaxPad, t \in Texts, l \in Labels}

Translations ==
    { <<"C", "i", "a", "o", ",", " ", "c", "o", "m", "e", " ", "s", "t", "a", "i", " ",
        "o", "g", "g", "i", "?">>,
      <<"C", "i", "a", "o", ",", " ", "p", "l", "e", "a", "s", "e", " ",
        "s", "u", "b", "s", "c", "r", "i", "b", "e", " ", "t", "o", " ", "m", "y", " ",
        "c", "h", "a", "n", "n", "e", "l", " ">> }

Speeches == { <<255, 251, 144>> }

\* the exceptions a request to the provider can raise
RemoteErrors ==
    {Exc(c, t) : c \in OpenAIError \cup {"ConnectionError", "ValueError"},
                 t \in {"provider message 1", "provider message 2"}}

\* what one request can do: answer, or raise
Outcomes ==
    {[ok |-> TRUE, exc |-> None]} \cup {[ok |-> FALSE, exc |-> Some(e)] : e \in RemoteErrors}

\* ------------------------------------------------------------------------
\* process_translation
\* ------------------------------------------------------------------------

Init ==
    /\ entry = "process_translation"
    /\ config = TranslationConfig
    /\ audio_file \in AudioFiles
    /\ whisper \in Transcriptions
    /\ chat \in Translations
    /\ speech \in Speeches
    /\ pc = "start"
    /\ cur = "none"
    /\ attempt_number = 0
    /\ attempts = [op \in Ops |-> 0]
    /\ sleeps = <<>>
    /\ errors = <<>>
    /\ audio_data = None
    /\ transcription = None
    /\ ret = None
    /\ caught = None
    /\ raised = None
    /\ result = None
    /\ stages = <<>>
    /\ confidence = None
    /\ request = None
    /\ response = None
    /\ others = <<>>

\* how process_translation ends when e is raised inside its try block
Raise(e) ==
    LET handled == except(e)
    IN  IF handled # None
        THEN /\ pc' = "done"
             /\ result' = handled
             /\ caught' = Some(e)
             /\ raised' = None
             /\ stages' = Append(stages, "Done")
        ELSE /\ pc' = "raised"
             /\ result' = None
             /\ caught' = None
             /\ raised' = Some(e)
             /\ UNCHANGED stages

\* Step 1, and Step 2 up to the first request: validate the file, return
\* the failure if it is rejected, else rewind it, read it and enter
\* _transcribe_with_retry
Validating ==
    /\ entry = "process_translation"
    /\ pc = "start"
    /\ LET checked   == validate(config, audio_file)
           validated == [audio_file EXCEPT !.pos = validate_seek(config, audio_file)]
           rewound   == [validated EXCEPT !.pos = 0]
       IN  IF ~checked.is_valid
           THEN /\ pc' = "done"
                /\ result' = Some(validation_failed(checked.error_msg))
                /\ audio_file' = validated
                /\ stages' = <<"Validating", "Done">>
                /\ UNCHANGED <<cur, attempt_number, audio_data>>
           ELSE /\ pc' = "calling"
                /\ cur' = "transcribe"
                /\ attempt_number' = 1
                /\ audio_data' = Some([filename     |-> rewound.filename,
                                       data         |-> read(rewound),
                                       content_type |-> rewound.content_type])
                /\ audio_file' = [rewound EXCEPT !.pos = rewound.size]
                /\ stages' = <<"Validating", "Transcribing">>
                /\ UNCHANGED result
    /\ UNCHANGED <<entry, config, whisper, chat, speech, attempts, sleeps,
                   errors, transcription, ret, caught, raised, confidence, request,
                   response, others>>

\* one attempt of _transcribe_with_retry inside process_translation.  When
\* the request answers, Step 2 goes on to line 131, where the lookup of
\* LanguageCode.from_name_or_code raises; lines 132-209 are not reached.
Transcribing ==
    /\ entry = "process_translation"
    /\ pc = "calling"
    /\ cur = "transcribe"
    /\ \E outcome \in Outcomes :
          LET next == after_attempt(retry_of(cur), attempt_number, outcome)
          IN  /\ attempts' = [attempts EXCEPT ![cur] = @ + 1]
              /\ errors' = IF outcome.ok THEN errors
                            ELSE Append(errors, [op |-> cur, exc |-> outcome.exc[1]])
              /\ CASE next.do = "sleep" ->
                        /\ pc' = "sleeping"
                        /\ UNCHANGED <<cur, transcription, result, caught, raised, stages>>
                   [] next.do = "raise" ->
                        /\ Raise(next.exc[1])
                        /\ cur' = "none"
                        /\ UNCHANGED transcription
                   [] next.do = "return" ->
                        /\ transcription' = Some(whisper)
                        /\ cur' = "none"
                        /\ IF lookup_from_name_or_code # None
                           THEN Raise(lookup_from_name_or_code[1])
                           ELSE /\ pc' = "normalized"
                                /\ UNCHANGED <<result, caught, raised, stages>>
    /\ UNCHANGED <<entry, config, audio_file, whisper, chat, speech,
                   attempt_number, sleeps, audio_data, ret, confidence, request,
                   response, others>>

\* a sleep between two attempts that never ends
Sleeping_forever ==
    /\ pc = "sleeping"
    /\ UNCHANGED vars

\* tenacity between two attempts: before_sleep logs, the call sleeps for
\* the wait computed from the attempt that failed, and the next attempt is
\* prepared
Sleeping ==
    /\ pc = "sleeping"
    /\ sleeps' = Append(sleeps,
                        wait_exponential(retry_of(cur).wait_exponential, attempt_number))
    /\ attempt_number' = attempt_number + 1
    /\ pc' = "calling"
    /\ UNCHANGED <<entry, config, audio_file, whisper, chat, speech, cur,
                   attempts, errors, audio_data, transcription, ret, caught,
                   raised, result, stages, confidence, request,
                   response, others>>

Next ==
    \/ Validating
    \/ Transcribing
    \/ Sleeping

Spec == Init /\ [][Next]_vars

\* process_translation runs on: the validator returns, each request
\* returns or raises, and each sleep between two attempts ends
SpecFair == Spec /\ WF_vars(Validating) /\ WF_vars(Transcribing) /\ WF_vars(Sleeping)

\* ------------------------------------------------------------------------
\* The three _with_retry methods, each called on its own
\* ------------------------------------------------------------------------

\* what the wrapped method returns when its request answers
answer(op) ==
    CASE op = "transcribe" -> whisper
      [] op = "translate"  -> strip(chat)
      [] op = "tts"        -> speech

\* the configurations main.py builds: MAX_RETRIES is taken from the
\* environment, 3 when it is not set
RetryConfigs == {TranslationConfig, [TranslationConfig EXCEPT !.MAX_RETRIES = 5]}

InitRetry ==
    /\ entry \in Ops
    /\ config \in RetryConfigs
    /\ audio_file = [filename     |-> <<"t", "e", "s", "t", ".", "m", "p", "3">>,
                     content_type |-> "audio/mpeg", size |-> 18, pos |-> 0]
    /\ whisper \in Transcriptions
    /\ chat \in Translations
    /\ speech \in Speeches
    /\ pc = "calling"
    /\ cur = entry
    /\ attempt_number = 1
    /\ attempts = [op \in Ops |-> 0]
    /\ sleeps = <<>>
    /\ errors = <<>>
    /\ audio_data = Some([filename     |-> audio_file.filename,
                          data         |-> read(audio_file),
                          content_type |-> audio_file.content_type])
    /\ transcription = None
    /\ ret = None
    /\ caught = None
    /\ raised = None
    /\ result = None
    /\ stages = <<>>
    /\ confidence = None
    /\ request = None
    /\ response = None
    /\ others = <<>>

\* one attempt of a _with_retry method called on its own
Calling ==
    /\ entry \in Ops
    /\ pc = "calling"
    /\ \E outcome \in Outcomes :
          LET next == after_attempt(retry_of(cur), attempt_number, outcome)
          IN  /\ attempts' = [attempts EXCEPT ![cur] = @ + 1]
              /\ errors' = IF outcome.ok THEN errors
                            ELSE Append(errors, [op |-> cur, exc |-> outcome.exc[1]])
              /\ CASE next.do = "sleep" ->
                        /\ pc' = "sleeping"
                        /\ UNCHANGED <<ret, raised>>
                   [] next.do = "raise" ->
                        /\ pc' = "raised"
                        /\ raised' = next.exc
                        /\ UNCHANGED ret
                   [] next.do = "return" ->
                        /\ pc' = "returned"
                        /\ ret' = Some(answer(cur))
                        /\ UNCHANGED raised
    /\ UNCHANGED <<entry, config, audio_file, whisper, chat, speech, cur,
                   attempt_number, sleeps, audio_data, transcription, caught,
                   result, stages, confidence, request,
                   response, others>>

NextRetry ==
    \/ Calling
    \/ Sleeping

SpecRetry == InitRetry /\ [][NextRetry]_vars

\* ------------------------------------------------------------------------
\* The methods without requests, each called on its own
\* ------------------------------------------------------------------------

UnitEntries ==
    {"from_name_or_code", "get_target_language", "validate", "check_hallucination",
     "validate_text_length", "validate_language_detection"}

\* the strings the tests hand to the two language lookups
LanguageArguments ==
    {
      <<"e", "n">>,
      <<"i", "t">>,
      <<"e", "s">>,
      <<"f", "r">>,
      <<"d", "e">>,
      <<"E", "N">>,
      <<"e", "n", "g", "l", "i", "s", "h">>,
      <<"i", "t", "a", "l", "i", "a", "n">>,
      <<"s", "p", "a", "n", "i", "s", "h">>,
      <<"f", "r", "e", "n", "c", "h">>,
      <<"g", "e", "r", "m", "a", "n">>,
      <<"E", "n", "g", "l", "i", "s", "h">>,
      <<"E", "N", "G", "L", "I", "S", "H">>,
      <<"E", "n", "G", "l", "I", "s", "H">>,
      <<"I", "t", "a", "l", "i", "a", "n">>,
      <<"r", "u">>,
      <<"r", "u", "s", "s", "i", "a", "n">>,
      <<"c", "h", "i", "n", "e", "s", "e">>,
      <<"u", "n", "k", "n", "o", "w", "n">>,
      <<>> }

\* pairs of a transcript and a translation for check_hallucination: those
\* of the tests' kinds, the boundaries of each check, and pairs that meet
\* the conditions of several checks
TextPairs ==
    {
      [original_text |->
          <<"H", "e", "l", "l", "o", ",", " ", "h", "o", "w", " ", "a", "r",
            "e", " ", "y", "o", "u", "?">>,
       translated_text |->
          <<"C", "i", "a", "o", ",", " ", "c", "o", "m", "e", " ", "s", "t",
            "a", "i", "?">>],
      [original_text |->
          <<"H", "i">>,
       translated_text |->
          <<"T", "h", "i", "s", " ", "i", "s", " ", "a", " ", "v", "e", "r",
            "y", " ", "l", "o", "n", "g", " ", "t", "r", "a", "n", "s", "l",
            "a", "t", "i", "o", "n">>],
      [original_text |->
          <<"a", "b">>,
       translated_text |->
          <<"a", "b", "c", "d", "e", "f">>],
      [original_text |->
          <<"a", "b">>,
       translated_text |->
          <<"a", "b", "c", "d", "e", "f", "g">>],
      [original_text |->
          <<"a", "b", "c", "d", "e", "f", "g", "h", "i", "j">>,
       translated_text |->
          <<"a", "b", "c">>],
      [original_text |->
          <<"a", "b", "c", "d", "e", "f", "g", "h", "i", "j">>,
       translated_text |->
          <<"a", "b">>],
      [original_text |->
          <<>>,
       translated_text |->
          <<"s", "u", "b", "s", "c", "r", "i", "b", "e", " ", "n", "o", "w">>],
      [original_text |->
          <<>>,
       translated_text |->
          <<"C", "i", "a", "o">>],
      [original_text |->
          <<"H", "i">>,
       translated_text |->
          <<"p", "l", "e", "a", "s", "e", " ", "s", "u", "b", "s", "c", "r",
            "i", "b", "e">>],
      [original_text |->
          <<"P", "l", "e", "a", "s", "e", " ", "t", "r", "a", "n", "s", "l",
            "a", "t", "e", " ", "t", "h", "i", "s", " ", "t", "e", "x", "t">>,
       translated_text |->
          <<"s", "u", "b", "s", "c", "r", "i", "b", "e", " ", "s", "u", "b",
            "s", "c", "r", "i", "b", "e", " ", "s", "u", "b", "s", "c", "r",
            "i", "b", "e", " ", "s", "u", "b", "s", "c", "r", "i", "b", "e",
            " ", "s", "u", "b", "s", "c", "r", "i", "b", "e", " ", "s", "u",
            "b", "s", "c", "r", "i", "b", "e">>],
      [original_text |->
          <<"P", "l", "e", "a", "s", "e", " ", "s", "u", "b", "s", "c", "r",
            "i", "b", "e", " ", "t", "o", " ", "m", "y", " ", "c", "h", "a",
            "n", "n", "e", "l">>,
       translated_text |->
          <<"P", "l", "e", "a", "s", "e", " ", "s", "u", "b", "s", "c", "r",
            "i", "b", "e", " ", "t", "o", " ", "m", "y", " ", "c", "h", "a",
            "n", "n", "e", "l">>],
      [original_text |->
          <<"w", "o", "r", "d", " ", "w", "o", "r", "d", " ", "w", "o", "r",
            "d", " ", "w", "o", "r", "d", " ", "w", "o", "r", "d", " ", "w",
            "o", "r", "d">>,
       translated_text |->
          <<"w", "o", "r", "d", " ", "w", "o", "r", "d", " ", "w", "o", "r",
            "d", " ", "w", "o", "r", "d", " ", "w", "o", "r", "d", " ", "w",
            "o", "r", "d">>],
      [original_text |->
          <<"P", "l", "e", "a", "s", "e", " ", "t", "r", "a", "n", "s", "l",
            "a", "t", "e", " ", "t", "h", "i", "s">>,
       translated_text |->
          <<"w", "o", "r", "d", " ", "w", "o", "r", "d", " ", "w", "o", "r",
            "d", " ", "w", "o", "r", "d", " ", "w", "o", "r", "d", " ", "w",
            "o", "r", "d", " ", "w", "o", "r", "d", " ", "w", "o", "r", "d">>],
      [original_text |->
          <<"T", "h", "i", "s", " ", "i", "s", " ", "a", " ", "t", "e", "s",
            "t", " ", "s", "e", "n", "t", "e", "n", "c", "e", " ", "o", "k">>,
       translated_text |->
          <<"T", "H", "I", "S", " ", "I", "S", " ", "A", " ", "T", "E", "S",
            "T", " ", "S", "E", "N", "T", "E", "N", "C", "E", " ", "O", "K">>],
      [original_text |->
          <<"H", "e", "l", "l", "o", ",", " ", "h", "o", "w", " ", "a", "r",
            "e", " ", "y", "o", "u", "?">>,
       translated_text |->
          <<"H", "e", "l", "l", "o", ",", " ", "h", "o", "w", " ", "a", "r",
            "e", " ", "y", "o", "u", "?">>],
      [original_text |->
          <<"H", "e", "l", "l", "o", ",", " ", "h", "o", "w", " ", "a", "r",
            "e", " ", "y", "o", "u", " ", "2">>,
       translated_text |->
          <<"H", "e", "l", "l", "o", ",", " ", "h", "o", "w", " ", "a", "r",
            "e", " ", "y", "o", "u", " ", "2">>],
      [original_text |->
          <<"H", "e", "l", "l", "o", ",", " ", "h", "o", "w", " ", "a", "r",
            "e", " ", "y", "o", "u", " ", "2", "2">>,
       translated_text |->
          <<"H", "e", "l", "l", "o", ",", " ", "h", "o", "w", " ", "a", "r",
            "e", " ", "y", "o", "u", " ", "2", "2">>],
      [original_text |->
          <<"T", "h", "i", "s", " ", "i", "s", " ", "a", " ", "t", "e", "s",
            "t", " ", "s", "e", "n", "t", "e", "n", "c", "e", " ", "o", "k">>,
       translated_text |->
          <<"T", "h", "i", "s", " ", "i", "s", " ", "a", " ", " ", "t", "e",
            "s", "t", " ", "s", "e", "n", "t", "e", "n", "c", "e", " ", "o",
            "k">>],
      [original_text |->
          <<"H", "e", "l", "l", "o", " ", "w", "o", "r", "l", "d", ",", " ",
            "h", "o", "w", " ", "a", "r", "e", " ", "y", "o", "u">>,
       translated_text |->
          <<"C", "i", "a", "o", ",", " ", "P", "L", "E", "A", "S", "E", " ",
            "S", "U", "B", "S", "C", "R", "I", "B", "E", " ", "o", "r", "a">>],
      [original_text |->
          <<"H", "e", "l", "l", "o", " ", "w", "o", "r", "l", "d">>,
       translated_text |->
          <<"C", "i", "a", "o", " ", "[", "M", "u", "s", "i", "c", "]", " ",
            "m", "o", "n", "d", "o">>],
      [original_text |->
          <<"P", "l", "e", "a", "s", "e", " ", "t", "r", "a", "n", "s", "l",
            "a", "t", "e", " ", "t", "h", "i", "s">>,
       translated_text |->
          <<"a", " ", "a", " ", "a", " ", "a", " ", "a", " ", "a", " ", "b",
            " ", "c", " ", "d", " ", "e", " ", "f", " ", "g">>],
      [original_text |->
          <<"P", "l", "e", "a", "s", "e", " ", "t", "r", "a", "n", "s", "l",
            "a", "t", "e", " ", "t", "h", "i", "s">>,
       translated_text |->
          <<"a", " ", "a", " ", "a", " ", "a", " ", "a", " ", "a", " ", "a",
            " ", "b", " ", "c", " ", "d", " ", "e", " ", "f">>],
      [original_text |->
          <<"P", "l", "e", "a", "s", "e", " ", "t", "r", "a", "n", "s", "l",
            "a", "t", "e", " ", "t", "h", "i", "s">>,
       translated_text |->
          <<"w", "o", "r", "d", " ", "w", "o", "r", "d", " ", "w", "o", "r",
            "d", " ", "w", "o", "r", "d", " ", "w", "o", "r", "d">>],
      [original_text |->
          <<"P", "l", "e", "a", "s", "e", " ", "t", "r", "a", "n", "s", "l",
            "a", "t", "e", " ", "t", "h", "i", "s">>,
       translated_text |->
          <<"a", " ", "b", " ", "a", " ", "b", " ", "a", " ", "b">>],
      [original_text |->
          <<"P", "l", "e", "a", "s", "e", " ", "t", "r", "a", "n", "s", "l",
            "a", "t", "e", " ", "t", "h", "i", "s">>,
       translated_text |->
          <<"a", " ", "b", " ", "c", " ", "a", " ", "b", " ", "c">>],
      [original_text |->
          <<"P", "l", "e", "a", "s", "e", " ", "t", "r", "a", "n", "s", "l",
            "a", "t", "e", " ", "t", "h", "i", "s">>,
       translated_text |->
          <<"w", "o", "r", "d", " ", " ", "w", "o", "r", "d", "\t", "w", "o",
            "r", "d", " ", "w", "o", "r", "d", " ", "w", "o", "r", "d", " ",
            "w", "o", "r", "d">>] }

\* each pair with 0..MaxPad spaces around the transcript and around the
\* translation
PaddedTextPairs ==
    {[original_text   |-> spaces(n) \o p.original_text \o spaces(n),
      translated_text |-> spaces(k) \o p.translated_text \o spaces(k)] :
        p \in TextPairs, n \in 0..MaxPad, k \in 0..MaxPad}

\* orders in which the for loop of check 2 can visit the set of keywords:
\* one order and its reverse, so that of two keywords either can come first
KeywordOrders(keywords) ==
    LET order == an_order(keywords)
    IN  {order, [i \in 1..Len(order) |-> order[Len(order) + 1 - i]]}

\* TranslationConfig(MAX_TEXT_LENGTH=8): a configuration whose maximum the
\* texts below reach
ShortTextConfig == [TranslationConfig EXCEPT !.MAX_TEXT_LENGTH = 8]

\* the texts handed to validate_text_length: those of the tests' kinds and
\* texts of 8 and 9 characters, each with 0..MaxPad spaces before and after
LengthTexts ==
    {spaces(n) \o t \o spaces(k) :
        n \in 0..MaxPad, k \in 0..MaxPad,
        t \in { <<>>,
                <<"H">>,
                <<"H", "i">>,
                <<"H", "e", "y">>,
                <<"a", "b", "c", "d", "e", "f", "g">>,
                <<"a", "b", "c", "d", "e", "f", "g", "h">>,
                <<"a", "b", "c", "d", "e", "f", "g", "h", "i">>,
                <<"H", "e", "l", "l", "o", ",", " ", "t", "h", "i", "s", " ",
                  "i", "s", " ", "a", " ", "t", "e", "s", "t">> }}

\* the confidences handed to validate_language_detection, in hundredths:
\* that of the tests (none, 0.5, 0.9) and those around the floor of 0.7
Confidences == {None} \cup {Some(c) : c \in {0, 50, 69, 70, 71, 90, 100}}

DefaultFile ==
    [filename     |-> <<"t", "e", "s", "t", ".", "m", "p", "3">>,
     content_type |-> "audio/mpeg", size |-> 18, pos |-> 0]

InitUnit ==
    /\ entry \in UnitEntries
    /\ config \in (IF entry = "validate_text_length"
                   THEN {TranslationConfig, ShortTextConfig}
                   ELSE {TranslationConfig})
    /\ audio_file \in (IF entry = "validate" THEN AudioFiles ELSE {DefaultFile})
    /\ \E p \in (IF entry = "check_hallucination"
                  THEN PaddedTextPairs
                  ELSE IF entry = "validate_text_length"
                  THEN {[original_text |-> t, translated_text |-> <<>>] : t \in LengthTexts}
                  ELSE {[original_text |-> <<>>, translated_text |-> <<>>]}) :
          /\ whisper \in (IF entry \in {"from_name_or_code", "get_target_language",
                                       "validate_language_detection"}
                          THEN {[text |-> p.original_text, language |-> l] :
                                   l \in LanguageArguments}
                          ELSE {[text |-> p.original_text, language |-> ENGLISH.code]})
          /\ chat = p.translated_text
    /\ speech \in Speeches
    /\ pc = "calling"
    /\ cur = "none"
    /\ attempt_number = 0
    /\ attempts = [op \in Ops |-> 0]
    /\ sleeps = <<>>
    /\ errors = <<>>
    /\ audio_data = None
    /\ transcription = None
    /\ ret = None
    /\ caught = None
    /\ raised = None
    /\ result = None
    /\ stages = <<>>
    /\ confidence \in (IF entry = "validate_language_detection"
                       THEN Confidences ELSE {None})
    /\ request = None
    /\ response = None
    /\ others = <<>>

\* LanguageCode.from_name_or_code(whisper.language): the attribute lookup
\* raises before anything is called
Call_from_name_or_code ==
    /\ entry = "from_name_or_code"
    /\ pc = "calling"
    /\ lookup_from_name_or_code # None
    /\ pc' = "raised"
    /\ raised' = lookup_from_name_or_code
    /\ UNCHANGED <<entry, config, audio_file, whisper, chat, speech, cur,
                   attempt_number, attempts, sleeps, errors, audio_data,
                   transcription, ret, caught, result, stages, confidence, request,
                   response, others>>

\* service.get_target_language(whisper.language)
Call_get_target_language ==
    /\ entry = "get_target_language"
    /\ pc = "calling"
    /\ pc' = "returned"
    /\ ret' = Some(get_target_language(whisper.language))
    /\ UNCHANGED <<entry, config, audio_file, whisper, chat, speech, cur,
                   attempt_number, attempts, sleeps, errors, audio_data,
                   transcription, caught, raised, result, stages, confidence, request,
                   response, others>>

\* AudioFileValidator(config).validate(audio_file)
Call_validate ==
    /\ entry = "validate"
    /\ pc = "calling"
    /\ pc' = "returned"
    /\ ret' = Some(validate(config, audio_file))
    /\ audio_file' = [audio_file EXCEPT !.pos = validate_seek(config, audio_file)]
    /\ UNCHANGED <<entry, config, whisper, chat, speech, cur,
                   attempt_number, attempts, sleeps, errors, audio_data,
                   transcription, caught, raised, result, stages, confidence, request,
                   response, others>>

\* TranslationValidator(config).check_hallucination(whisper.text, chat,
\* whisper.language), the set of keywords being visited in some order
Call_check_hallucination ==
    /\ entry = "check_hallucination"
    /\ pc = "calling"
    /\ pc' = "returned"
    /\ \E keyword_order \in KeywordOrders(config.HALLUCINATION_KEYWORDS) :
          ret' = Some(check_hallucination(config, whisper.text, chat,
                                          whisper.language, keyword_order))
    /\ UNCHANGED <<entry, config, audio_file, whisper, chat, speech, cur,
                   attempt_number, attempts, sleeps, errors, audio_data,
                   transcription, caught, raised, result, stages, confidence, request,
                   response, others>>

\* TranslationValidator(config).validate_text_length(whisper.text)
Call_validate_text_length ==
    /\ entry = "validate_text_length"
    /\ pc = "calling"
    /\ pc' = "returned"
    /\ ret' = Some(validate_text_length(config, whisper.text))
    /\ UNCHANGED <<entry, config, audio_file, whisper, chat, speech, cur,
                   attempt_number, attempts, sleeps, errors, audio_data,
                   transcription, caught, raised, result, stages, confidence, request,
                   response, others>>

\* TranslationValidator(config).validate_language_detection(whisper.language,
\* confidence), or with one argument when confidence is None
Call_validate_language_detection ==
    /\ entry = "validate_language_detection"
    /\ pc = "calling"
    /\ pc' = "returned"
    /\ ret' = Some(validate_language_detection(config, whisper.language, confidence))
    /\ UNCHANGED <<entry, config, audio_file, whisper, chat, speech, cur,
                   attempt_number, attempts, sleeps, errors, audio_data,
                   transcription, caught, raised, result, stages, confidence, request,
                   response, others>>

\* a second check_hallucination on the same arguments and configuration, in
\* an interpreter of its own (the service restarted, or another worker):
\* the order of the set of keywords is that interpreter's, string hashing
\* being seeded per process.  ret then holds both returned values.
Call_check_hallucination_again ==
    /\ entry = "check_hallucination"
    /\ pc = "returned"
    /\ Len(ret) = 1
    /\ \E keyword_order \in KeywordOrders(config.HALLUCINATION_KEYWORDS) :
          ret' = Append(ret, check_hallucination(config, whisper.text, chat,
                                                 whisper.language, keyword_order))
    /\ UNCHANGED <<entry, config, audio_file, whisper, chat, speech, pc, cur,
                   attempt_number, attempts, sleeps, errors, audio_data,
                   transcription, caught, raised, result, stages, confidence, request,
                   response, others>>

NextUnit ==
    \/ Call_from_name_or_code
    \/ Call_get_target_language
    \/ Call_validate
    \/ Call_check_hallucination
    \/ Call_check_hallucination_again
    \/ Call_validate_text_length
    \/ Call_validate_language_detection

SpecUnit == InitUnit /\ [][NextUnit]_vars

\* ------------------------------------------------------------------------
\* Several requests served at once: each call of translate (app/main.py)
\* builds its own TranslationService and calls process_translation on its
\* own file.  One invocation runs at a time; the others are suspended with
\* their locals kept in `others', and the scheduler may switch between
\* any two steps.
\* ------------------------------------------------------------------------

\* the invocations of process_translation in progress together
Invocations == 3

\* what belongs to one invocation: its file, what the provider answers to
\* its requests, the locals of process_translation and the state tenacity
\* keeps for its call of a _with_retry method
locals ==
    [audio_file     |-> audio_file,
     whisper        |-> whisper,
     chat           |-> chat,
     speech         |-> speech,
     pc             |-> pc,
     cur            |-> cur,
     attempt_number |-> attempt_number,
     attempts       |-> attempts,
     sleeps         |-> sleeps,
     errors         |-> errors,
     audio_data     |-> audio_data,
     transcription  |-> transcription,
     caught         |-> caught,
     raised         |-> raised,
     result         |-> result,
     stages         |-> stages]

\* the files of the concurrent requests: one that is accepted, one that is
\* rejected as empty
ConcurrentFiles == {DefaultFile, [DefaultFile EXCEPT !.size = 0]}

ConcurrentTranscriptions ==
    {[text |-> <<"H", "i">>, language |-> <<"e", "n", "g", "l", "i", "s", "h">>],
     [text |-> <<"C", "i", "a", "o">>, language |-> <<"i", "t", "a", "l", "i", "a", "n">>]}

\* what the provider raises while several requests are served: an error
\* that is retried and one that is not
ConcurrentErrors ==
    {Exc("APIConnectionError", "provider message 1"),
     Exc("ValueError", "provider message 1")}

\* an invocation that has not started
Started(file, answer_of_whisper) ==
    [audio_file     |-> file,
     whisper        |-> answer_of_whisper,
     chat           |-> <<"C", "i", "a", "o">>,
     speech         |-> <<255, 251, 144>>,
     pc             |-> "start",
     cur            |-> "none",
     attempt_number |-> 0,
     attempts       |-> [op \in Ops |-> 0],
     sleeps         |-> <<>>,
     errors         |-> <<>>,
     audio_data     |-> None,
     transcription  |-> None,
     caught         |-> None,
     raised         |-> None,
     result         |-> None,
     stages         |-> <<>>]

InitConcurrent ==
    /\ entry = "process_translation"
    /\ config = TranslationConfig
    /\ audio_file \in ConcurrentFiles
    /\ whisper \in ConcurrentTranscriptions
    /\ chat = <<"C", "i", "a", "o">>
    /\ speech = <<255, 251, 144>>
    /\ pc = "start"
    /\ cur = "none"
    /\ attempt_number = 0
    /\ attempts = [op \in Ops |-> 0]
    /\ sleeps = <<>>
    /\ errors = <<>>
    /\ audio_data = None
    /\ transcription = None
    /\ ret = None
    /\ caught = None
    /\ raised = None
    /\ result = None
    /\ stages = <<>>
    /\ confidence = None
    /\ request = None
    /\ response = None
    /\ others \in [1..(Invocations - 1) ->
                      {Started(f, w) : f \in ConcurrentFiles,
                                       w \in ConcurrentTranscriptions}]

\* the scheduler switching threads with every invocation keeping only the
\* attempt counter of the thread that ran last
Switch_shared_attempt(i) ==
    /\ i \in 1..Len(others)
    /\ others' = [others EXCEPT ![i] = locals]
    /\ audio_file' = others[i].audio_file
    /\ whisper' = others[i].whisper
    /\ chat' = others[i].chat
    /\ speech' = others[i].speech
    /\ pc' = others[i].pc
    /\ cur' = others[i].cur
    /\ attempt_number' = attempt_number
    /\ attempts' = others[i].attempts
    /\ sleeps' = others[i].sleeps
    /\ errors' = others[i].errors
    /\ audio_data' = others[i].audio_data
    /\ transcription' = others[i].transcription
    /\ caught' = others[i].caught
    /\ raised' = others[i].raised
    /\ result' = others[i].result
    /\ stages' = others[i].stages
    /\ UNCHANGED <<entry, config, ret, confidence, request, response>>

\* the scheduler suspends the running invocation and resumes invocation i:
\* each thread has its own frame of process_translation, its own
\* TranslationService and, inside a _with_retry method, its own copy of
\* the Retrying object, so all of `locals' goes with the thread
Switch(i) ==
    /\ i \in 1..Len(others)
    /\ others' = [others EXCEPT ![i] = locals]
    /\ audio_file' = others[i].audio_file
    /\ whisper' = others[i].whisper
    /\ chat' = others[i].chat
    /\ speech' = others[i].speech
    /\ pc' = others[i].pc
    /\ cur' = others[i].cur
    /\ attempt_number' = others[i].attempt_number
    /\ attempts' = others[i].attempts
    /\ sleeps' = others[i].sleeps
    /\ errors' = others[i].errors
    /\ audio_data' = others[i].audio_data
    /\ transcription' = others[i].transcription
    /\ caught' = others[i].caught
    /\ raised' = others[i].raised
    /\ result' = others[i].result
    /\ stages' = others[i].stages
    /\ UNCHANGED <<entry, config, ret, confidence, request, response>>

\* a step of the running invocation, its requests raising only the errors
\* of ConcurrentErrors, or a switch to another invocation
NextConcurrent ==
    \/ Validating
    \/ Transcribing /\ \A k \in 1..Len(errors') : errors'[k].exc \in ConcurrentErrors
    \/ Sleeping
    \/ \E i \in 1..(Invocations - 1) : Switch(i)

SpecConcurrent == InitConcurrent /\ [][NextConcurrent]_vars

\* ------------------------------------------------------------------------
\* The return statements of process_translation
\* ------------------------------------------------------------------------

\* the value each return statement of process_translation builds, its
\* locals being what the statements before it compute from the files,
\* transcripts, translations and errors of the inputs above: a transcript
\* is stripped (line 129), the detected language is the code of a member
\* of LanguageCode (lines 133, 136), the translation is stripped (line 90)
ReturnValues ==
    LET transcripts == {strip(p.original_text) : p \in TextPairs}
                          \cup {strip(t) : t \in Texts}
        spoken(t)   == validate_text_length(TranslationConfig, t).is_valid
        understood(c) == validate_language_detection(TranslationConfig, c, None).is_valid
        target(c)   == get_target_language(c).name
        checks(p, c) ==
            {check_hallucination(TranslationConfig, strip(p.original_text),
                                 strip(p.translated_text), c, keyword_order) :
                keyword_order \in KeywordOrders(TranslationConfig.HALLUCINATION_KEYWORDS)}
        pairs == {p \in TextPairs : spoken(strip(p.original_text))}
        codes == {c \in get_supported_codes : understood(c)}
    IN  {validation_failed(validate(TranslationConfig, f).error_msg) :
            f \in {g \in AudioFiles : ~validate(TranslationConfig, g).is_valid}}
        \cup
        {text_length_failed(validate_text_length(TranslationConfig, t).error_msg[1], c, t) :
            t \in {u \in transcripts : ~spoken(u)}, c \in get_supported_codes}
        \cup
        {language_failed(validate_language_detection(TranslationConfig, c, None).error_msg[1],
                         c, t) :
            t \in {u \in transcripts : spoken(u)},
            c \in {d \in get_supported_codes : ~understood(d)}}
        \cup
        UNION {UNION {{quality_failed(h.reason[1], strip(p.original_text),
                                      strip(p.translated_text), c, target(c)) :
                          h \in {k \in checks(p, c) : k.is_hallucination}} :
                      c \in codes} :
               p \in pairs}
        \cup
        UNION {{completed(a, strip(p.original_text), strip(p.translated_text),
                          c, target(c)) :
                   a \in Speeches,
                   p \in {q \in pairs : \E h \in checks(q, c) : ~h.is_hallucination}} :
               c \in codes}
        \cup
        {except(e)[1] :
            e \in RemoteErrors \cup {RetryError(x) : x \in RemoteErrors}
                    \cup (IF lookup_from_name_or_code = None
                          THEN {} ELSE {lookup_from_name_or_code[1]})}

\* ------------------------------------------------------------------------
\* The /translate endpoint (app/main.py)
\* ------------------------------------------------------------------------

\* Python's truth value of an Optional[str]: neither None nor ""
truthy(x) == x # None /\ x[1] # <<>>

\* lines 72-75: the response to a request without an 'audio' part
no_audio_response ==
    [status  |-> 400,
     json    |-> Some("error" :> Some(<<"No audio file provided">>)),
     data    |-> None,
     headers |-> <<>>]

\* translate answering a failure with status 400 whatever requires_retry is
translate_response_always_400(r) ==
    IF ~r.success
    THEN [status  |-> 400,
          json    |-> Some(("error" :> r.error_message)
                           @@ ("requires_retry" :> r.requires_retry)
                           @@ ("hallucination_detected" :> r.hallucination_detected)
                           @@ (IF truthy(r.detected_language)
                               THEN "detected_language" :> r.detected_language
                               ELSE <<>>)
                           @@ (IF truthy(r.original_text)
                               THEN "original_text" :> r.original_text
                               ELSE <<>>)),
          data    |-> None,
          headers |-> <<>>]
    ELSE [status  |-> 200,
          json    |-> None,
          data    |-> r.audio_bytes,
          headers |-> ("Content-Type" :> Some(<<"audio/mpeg">>))
                      @@ ("Content-Disposition"
                             :> Some(<<"attachment; filename=translated.mp3">>))
                      @@ ("X-Original-Text" :> r.original_text)
                      @@ ("X-Translated-Text" :> r.translated_text)
                      @@ ("X-Detected-Language" :> r.detected_language)
                      @@ ("X-Target-Language" :> r.target_language)]

\* lines 95-119: the response translate makes of the result r.  A JSON body
\* is the function from its keys to their values, a header value an
\* Optional string as the fields of r are; make_response gives status 200
\* when no status is passed.
translate_response(r) ==
    IF ~r.success
    THEN [status  |-> IF r.requires_retry THEN 400 ELSE 500,
          json    |-> Some(("error" :> r.error_message)
                           @@ ("requires_retry" :> r.requires_retry)
                           @@ ("hallucination_detected" :> r.hallucination_detected)
                           @@ (IF truthy(r.detected_language)
                               THEN "detected_language" :> r.detected_language
                               ELSE <<>>)
                           @@ (IF truthy(r.original_text)
                               THEN "original_text" :> r.original_text
                               ELSE <<>>)),
          data    |-> None,
          headers |-> <<>>]
    ELSE [status  |-> 200,
          json    |-> None,
          data    |-> r.audio_bytes,
          headers |-> ("Content-Type" :> Some(<<"audio/mpeg">>))
                      @@ ("Content-Disposition"
                             :> Some(<<"attachment; filename=translated.mp3">>))
                      @@ ("X-Original-Text" :> r.original_text)
                      @@ ("X-Translated-Text" :> r.translated_text)
                      @@ ("X-Detected-Language" :> r.detected_language)
                      @@ ("X-Target-Language" :> r.target_language)]

\* the names of the file parts of the requests
RequestFiles == {{}, {"file"}, {"audio"}}

\* a POST to /translate arrives; or process_translation, called by
\* translate for a request with an 'audio' part, stands at one of its
\* return statements
InitHttp ==
    /\ config = TranslationConfig
    /\ request \in {Some([files |-> f]) : f \in RequestFiles}
    /\ \/ /\ entry = "translate"
          /\ pc = "request"
          /\ audio_file \in (IF "audio" \in request[1].files
                             THEN AudioFiles ELSE {DefaultFile})
          /\ whisper \in (IF "audio" \in request[1].files
                          THEN Transcriptions
                          ELSE {[text |-> <<>>, language |-> ENGLISH.code]})
       \/ /\ entry = "process_translation"
          /\ pc = "returning"
          /\ "audio" \in request[1].files
          /\ audio_file = DefaultFile
          /\ whisper = [text |-> <<>>, language |-> ENGLISH.code]
    /\ chat = <<"C", "i", "a", "o">>
    /\ speech \in Speeches
    /\ cur = "none"
    /\ attempt_number = 0
    /\ attempts = [op \in Ops |-> 0]
    /\ sleeps = <<>>
    /\ errors = <<>>
    /\ audio_data = None
    /\ transcription = None
    /\ ret = None
    /\ caught = None
    /\ raised = None
    /\ result = None
    /\ stages = <<>>
    /\ confidence = None
    /\ response = None
    /\ others = <<>>

\* lines 68-92: without an 'audio' part translate answers 400; with one it
\* builds the service and calls process_translation on the part
Translate ==
    /\ entry = "translate"
    /\ pc = "request"
    /\ IF "audio" \notin request[1].files
       THEN /\ response' = Some(no_audio_response)
            /\ pc' = "responded"
            /\ UNCHANGED entry
       ELSE /\ entry' = "process_translation"
            /\ pc' = "start"
            /\ UNCHANGED response
    /\ UNCHANGED <<config, audio_file, whisper, chat, speech, cur,
                   attempt_number, attempts, sleeps, errors, audio_data,
                   transcription, ret, caught, raised, result, stages, confidence,
                   request, others>>

\* process_translation leaves by one of its return statements
Returning ==
    /\ entry = "process_translation"
    /\ pc = "returning"
    /\ \E r \in ReturnValues : result' = Some(r)
    /\ pc' = "done"
    /\ UNCHANGED <<entry, config, audio_file, whisper, chat, speech, cur,
                   attempt_number, attempts, sleeps, errors, audio_data,
                   transcription, ret, caught, raised, stages, confidence, request,
                   response, others>>

\* lines 92-119: process_translation has returned to translate, which
\* makes the response of the result
Responding ==
    /\ entry = "process_translation"
    /\ pc = "done"
    /\ request # None
    /\ response' = Some(translate_response(result[1]))
    /\ entry' = "translate"
    /\ pc' = "responded"
    /\ UNCHANGED <<config, audio_file, whisper, chat, speech, cur,
                   attempt_number, attempts, sleeps, errors, audio_data,
                   transcription, ret, caught, raised, result, stages, confidence,
                   request, others>>

NextHttp ==
    \/ Translate
    \/ Validating
    \/ Transcribing
    \/ Sleeping
    \/ Returning
    \/ Responding

SpecHttp == InitHttp /\ [][NextHttp]_vars

\* ------------------------------------------------------------------------
\* Properties
\* ------------------------------------------------------------------------

\* C1: every result process_translation returns has no audio bytes when
\* success is false, and has the bytes the speech request returned when
\* success is true.
C1_AudioOnlyOnSuccess ==
    result # None =>
        IF result[1].success
        THEN result[1].audio_bytes = Some(speech)
        ELSE result[1].audio_bytes = None

\* a failure returned after the transcription request was retried to the end
C1_FailureAfterRequests ==
    /\ pc = "done"
    /\ result # None
    /\ ~result[1].success
    /\ caught # None
    /\ caught[1].cls = "RetryError"
    /\ attempts["transcribe"] = 3

\* C2: a valid file whose transcription has a text of acceptable length and
\* a label that is the code or the name of English (Italian) in any letter
\* case, with a translation the quality gate accepts and no failing
\* translation or speech request, yields success with detected language
\* "en" ("it"), target "Italian" ("English"), the trimmed transcript, the
\* translation and the speech bytes.
C2_HappyPath ==
    \A lang \in {ENGLISH, ITALIAN} :
        ( /\ pc = "done"
          /\ validate(config, audio_file).is_valid
          /\ transcription # None
          /\ validate_text_length(config, strip(whisper.text)).is_valid
          /\ lower(whisper.language) \in {lang.code, lower(lang.name)}
          /\ \A i \in 1..Len(errors) : errors[i].op = "transcribe"
          /\ ~check_hallucination(config, strip(whisper.text), strip(chat), lang.code,
                                  an_order(config.HALLUCINATION_KEYWORDS)).is_hallucination )
        => result = Some([TranslationResult EXCEPT
                             !.success = TRUE,
                             !.audio_bytes = Some(speech),
                             !.original_text = Some(strip(whisper.text)),
                             !.translated_text = Some(strip(chat)),
                             !.detected_language = Some(lang.code),
                             !.target_language =
                                 Some(IF lang = ENGLISH THEN ITALIAN.name ELSE ENGLISH.name)])

\* C3: a transcript whose trimmed length is between 1 and MIN_TEXT_LENGTH - 1
\* yields, whatever its language label, a failure with requires_retry set
\* and a message saying the text is too short, and neither the translation
\* nor the speech request is sent.
C3_ShortTranscript ==
    ( /\ pc = "done"
      /\ transcription # None
      /\ Len(strip(whisper.text)) \in 1..(config.MIN_TEXT_LENGTH - 1) )
    => /\ ~result[1].success
       /\ result[1].requires_retry
       /\ result[1].error_message # None
       /\ \E i \in 1..Len(result[1].error_message[1]) :
             result[1].error_message[1][i] = "Text too short or empty"
       /\ attempts["translate"] = 0
       /\ attempts["tts"] = 0

\* C4: when the quality gate flags the trimmed transcript and its
\* translation, the result is a failure with hallucination_detected and
\* requires_retry set that carries both texts and both languages, and the
\* speech request is not sent.
C4_HallucinationFlagged ==
    ( /\ pc = "done"
      /\ transcription # None
      /\ validate_text_length(config, strip(whisper.text)).is_valid
      /\ \A i \in 1..Len(errors) : errors[i].op = "transcribe"
      /\ check_hallucination(config, strip(whisper.text), strip(chat), <<>>,
                             an_order(config.HALLUCINATION_KEYWORDS)).is_hallucination )
    => /\ ~result[1].success
       /\ result[1].hallucination_detected
       /\ result[1].requires_retry
       /\ result[1].original_text = Some(strip(whisper.text))
       /\ result[1].translated_text = Some(strip(chat))
       /\ result[1].detected_language # None
       /\ result[1].target_language # None
       /\ attempts["tts"] = 0

\* C5: when the file validator rejects the file, the result is a failure
\* with requires_retry false whose message is the validator's reason
\* ("Audio file is empty" for a file of zero bytes, "Unsupported format"
\* for a content type that is not allowed), and no request is sent.
C5_RejectedFile ==
    ( /\ pc = "done"
      /\ ~validate(config, audio_file).is_valid )
    => /\ ~result[1].success
       /\ ~result[1].requires_retry
       /\ ~result[1].hallucination_detected
       /\ result[1].error_message = validate(config, audio_file).error_msg
       /\ ( audio_file.filename # <<>> /\ audio_file.content_type = "text/plain"
            => result[1].error_message = Some(<<"Unsupported format: ", "text/plain">>) )
       /\ ( audio_file.filename # <<>> /\ audio_file.content_type = "audio/mpeg"
                                      /\ audio_file.size = 0
            => result[1].error_message = Some(<<"Audio file is empty">>) )
       /\ \A op \in Ops : attempts[op] = 0
       /\ transcription = None

\* the empty file was rejected
C5_EmptyFileRejected ==
    /\ pc = "done"
    /\ audio_file.size = 0
    /\ audio_file.content_type = "audio/mpeg"
    /\ audio_file.filename = <<"t", "e", "s", "t", ".", "m", "p", "3">>

\* C6: when the transcription request fails with a retryable provider error
\* on each of its three attempts, the result is the service-error failure
\* (not the generic one) with requires_retry false, and no later request is
\* sent.
C6_ExhaustedIsServiceError ==
    ( /\ pc = "done"
      /\ Len(errors) = 3
      /\ \A i \in 1..3 : /\ errors[i].op = "transcribe"
                         /\ errors[i].exc.cls \in {"APIConnectionError", "RateLimitError"} )
    => /\ ~result[1].success
       /\ ~result[1].requires_retry
       /\ result[1].error_message # None
       /\ result[1].error_message[1][1] = "Service error: "
       /\ attempts["translate"] = 0
       /\ attempts["tts"] = 0

\* C7: a remote operation is requested at most 3 times in one call: after 3
\* failed attempts the call has ended, and after an attempt that answered
\* no further request is sent.
C7_AtMostThreeAttempts ==
    /\ \A op \in Ops : attempts[op] <= 3
    /\ attempts[cur] = Len(errors) + (IF pc = "returned" THEN 1 ELSE 0)
    /\ Len(errors) = 3 => pc = "raised"
    /\ pc = "returned" => ~ENABLED Calling /\ ~ENABLED Sleeping

\* the translation request failed three times and the call gave up
C7_ThirdFailureEnds ==
    /\ entry = "translate"
    /\ pc = "raised"
    /\ attempts["translate"] = 3
    /\ raised # None
    /\ raised[1].cls = "RetryError"

\* C8 as stated: a request failing with a malformed-request or an
\* authentication error is sent once, and its error leaves the call at
\* once, without a sleep.
C8_NonTransientNotRetried ==
    \A i \in 1..Len(errors) :
        errors[i].exc.cls \in {"BadRequestError", "AuthenticationError"}
        => /\ i = 1
           /\ Len(errors) = 1
           /\ attempts[cur] = 1
           /\ sleeps = <<>>
           /\ pc = "raised"
           /\ raised = Some(errors[i].exc)

\* C8 amended: an error that is neither an OpenAIError nor a ConnectionError
\* leaves the call on its first occurrence, unchanged, with no further
\* request and no sleep after it; every OpenAIError (malformed-request and
\* authentication errors included) and every ConnectionError raised by one
\* of the first two attempts is followed by a further attempt.
C8_OnlyOtherErrorsNotRetried ==
    \A i \in 1..Len(errors) :
        IF errors[i].exc.cls \in {"APIConnectionError", "RateLimitError", "BadRequestError",
                                  "AuthenticationError", "ConnectionError"}
        THEN (i < 3 /\ i = Len(errors)) => pc \in {"sleeping", "calling", "returned"}
        ELSE /\ i = Len(errors)
             /\ attempts[cur] = i
             /\ Len(sleeps) = i - 1
             /\ pc = "raised"
             /\ raised = Some(errors[i].exc)

\* an authentication error was retried, and the ValueError of the second
\* attempt left the call
C8_AuthRetriedValueErrorNot ==
    /\ Len(errors) = 2
    /\ errors[1].exc.cls = "AuthenticationError"
    /\ errors[2].exc.cls = "ValueError"
    /\ pc = "raised"
    /\ attempts[cur] = 2

\* C9 as stated: the sleep after the n-th failed attempt is
\* min(10, 2 * 2^(n-1)) seconds: 2 after the first failure, 4 after the
\* second.
C9_SleepDoublesFromFloor ==
    \A n \in 1..Len(sleeps) : sleeps[n] = Minimum(10, 2 * 2 ^ (n - 1))

\* C9 amended: the sleep after the n-th failed attempt is
\* max(2, min(10, 2^(n-1))) seconds, which is 2 after the first failure and
\* 2 again after the second; no sleep is below 2 or above 10 seconds.
C9_SleepClamped ==
    \A n \in 1..Len(sleeps) :
        /\ sleeps[n] = Maximum(2, Minimum(10, 2 ^ (n - 1)))
        /\ sleeps[n] = 2
        /\ sleeps[n] >= 2
        /\ sleeps[n] <= 10

\* two sleeps were taken in one call of the speech method
C9_TwoSleeps ==
    /\ entry = "tts"
    /\ Len(sleeps) = 2
    /\ attempt_number = 3

\* C10: process_translation never lets an exception out: an exception that
\* is not an OpenAIError, raised anywhere in the try block, becomes the
\* failure with the fixed message, requires_retry false and
\* hallucination_detected false.
C10_NeverRaises ==
    /\ pc # "raised"
    /\ raised = None
    /\ pc = "done" => result # None
    /\ ( caught # None /\ caught[1].cls \notin OpenAIError )
       => /\ pc = "done"
          /\ result = Some([success                |-> FALSE,
                            audio_bytes            |-> None,
                            original_text          |-> None,
                            translated_text        |-> None,
                            detected_language      |-> None,
                            target_language        |-> None,
                            confidence_score       |-> None,
                            error_message          |->
                                Some(<<"Unexpected error. Please try again.">>),
                            requires_retry         |-> FALSE,
                            hallucination_detected |-> FALSE])

\* a ValueError raised by the first transcription request was turned into
\* the generic failure
C10_ValueErrorHandled ==
    /\ pc = "done"
    /\ caught # None
    /\ caught[1].cls = "ValueError"
    /\ attempts["transcribe"] = 1

\* C11: the steps entered are a prefix of Stages in its order, each at most
\* once, with Done last and only at the end; and Done is entered from the
\* last step or from the first step that failed, so that a file the
\* validator accepts and a transcription request that answered are followed
\* by the check of the transcript length, not by Done.
C11_StagesInOrder ==
    /\ \A i \in 1..Len(stages) :
          \/ stages[i] = "Done" /\ i = Len(stages) /\ i > 1
          \/ i <= Len(Stages) /\ stages[i] = Stages[i]
    /\ pc = "done" =>
          /\ Len(stages) >= 2
          /\ stages[Len(stages)] = "Done"
          /\ LET last == stages[Len(stages) - 1]
             IN  /\ last = "Validating" => ~validate(config, audio_file).is_valid
                 /\ last = "Transcribing" => transcription = None

\* C14: a valid file whose transcription has a text of acceptable length
\* and a label that is neither the code nor the name of a supported
\* language, with a translation the quality gate accepts for English and
\* no failing translation or speech request, goes through the translation
\* and the speech request and yields success with detected language "en".
C14_UnknownLabelIsEnglish ==
    ( /\ pc = "done"
      /\ validate(config, audio_file).is_valid
      /\ transcription # None
      /\ validate_text_length(config, strip(whisper.text)).is_valid
      /\ \A i \in 1..Len(LanguageCode) :
            lower(whisper.language) \notin {LanguageCode[i].code, lower(LanguageCode[i].name)}
      /\ \A i \in 1..Len(errors) : errors[i].op = "transcribe"
      /\ ~check_hallucination(config, strip(whisper.text), strip(chat), ENGLISH.code,
                              an_order(config.HALLUCINATION_KEYWORDS)).is_hallucination )
    => /\ result[1].success
       /\ result[1].detected_language = Some(ENGLISH.code)
       /\ attempts["translate"] >= 1
       /\ attempts["tts"] >= 1

\* C16: validate leaves the read cursor of a file it rejected no further
\* than the start of the stream, and the tuple handed to the transcription
\* request after a file was accepted carries the whole stream, from offset
\* 0 to its end.
C16_FullPayloadFromStart ==
    /\ stages = <<"Validating", "Done">> => audio_file.pos = 0
    /\ audio_data # None =>
          /\ audio_data[1].data = [offset |-> 0, length |-> audio_file.size]
          /\ audio_data[1].filename = audio_file.filename
          /\ audio_data[1].content_type = audio_file.content_type

\* the transcription request answered for the 18 bytes of an accepted file
C16_PayloadTranscribed ==
    /\ audio_data # None
    /\ audio_data[1].data.length = 18
    /\ transcription # None
    /\ attempts["transcribe"] = 2

\* C12: LanguageCode.from_name_or_code returns, for a string that is the
\* code or the name of a member in any letter case, that member, and None
\* for every other string, the empty one included.
C12_NormalizesCodesAndNames ==
    (entry = "from_name_or_code" /\ pc # "calling") =>
        LET hits == {i \in 1..Len(LanguageCode) :
                        lower(whisper.language) \in
                            {LanguageCode[i].code, lower(LanguageCode[i].name)}}
        IN  /\ pc = "returned"
            /\ ret = Some(IF hits = {} THEN None ELSE Some(LanguageCode[SetMin(hits)]))

\* C13: get_target_language returns ITALIAN for "en", ENGLISH for "it" and
\* ENGLISH for every other string, and raises nothing.
C13_TargetLanguage ==
    (entry = "get_target_language" /\ pc # "calling") =>
        /\ pc = "returned"
        /\ raised = None
        /\ ret = Some(IF whisper.language = <<"e", "n">> THEN ITALIAN ELSE ENGLISH)
        /\ whisper.language = <<"i", "t">> => ret = Some(ENGLISH)

\* a supported code without a pair, and a string that is no code
C13_NoPairIsEnglish ==
    /\ entry = "get_target_language"
    /\ pc = "returned"
    /\ whisper.language \in {<<"e", "s">>, <<"E", "N">>, <<>>}
    /\ ret = Some(ENGLISH)

\* C15: validate accepts, with no reason, exactly the files that have a
\* filename, an allowed content type, a size in (0, max] and an allowed
\* extension, and otherwise gives the reason of the first of these four
\* checks that fails: "Unsupported format" for a content type that is not
\* allowed even with a bad extension, "Invalid extension" for .txt with an
\* allowed content type and size.
C15_FirstFailingCheck ==
    (entry = "validate" /\ pc = "returned") =>
        LET present == audio_file.filename # <<>>
            typed   == audio_file.content_type \in config.ALLOWED_FORMATS
            sized   == /\ audio_file.size > 0
                       /\ audio_file.size <= config.MAX_FILE_SIZE_MB * 1024 * 1024
            named   == lower(splitext_ext(audio_file.filename)) \in allowed_extensions
            reason  == ret[1].error_msg
        IN  /\ ret[1].is_valid <=> (present /\ typed /\ sized /\ named)
            /\ ret[1].is_valid => reason = None
            /\ ~present => reason = Some(<<"No audio file provided">>)
            /\ (present /\ ~typed) =>
                  reason # None /\ reason[1][1] = "Unsupported format: "
            /\ (present /\ typed /\ ~sized) =>
                  reason # None /\ reason[1][1] \in {"File too large: ", "Audio file is empty"}
            /\ (present /\ typed /\ sized /\ ~named) =>
                  reason # None /\ reason[1][1] = "Invalid extension: "
            /\ ( /\ audio_file.filename = <<"t", "e", "s", "t", ".", "t", "x", "t">>
                 /\ audio_file.content_type = "text/plain" ) =>
                  reason = Some(<<"Unsupported format: ", "text/plain">>)
            /\ ( /\ audio_file.filename = <<"t", "e", "s", "t", ".", "t", "x", "t">>
                 /\ audio_file.content_type = "audio/mpeg"
                 /\ audio_file.size = 18 ) =>
                  reason = Some(<<"Invalid extension: ", ".", "t", "x", "t">>)

\* a file that fails the content type, the size and the extension check
C15_SeveralChecksFail ==
    /\ entry = "validate"
    /\ pc = "returned"
    /\ audio_file.filename = <<"t", "e", "s", "t", ".", "t", "x", "t">>
    /\ audio_file.content_type = "text/plain"
    /\ audio_file.size = 0
    /\ ret # None
    /\ ret[1].error_msg = Some(<<"Unsupported format: ", "text/plain">>)

\* C17: check_hallucination flags a pair exactly when one of its four
\* checks fires and gives the reason of the first that does, in the order
\* length ratio, keyword, identical text, repetition; when none fires it
\* returns (False, None).
C17_FirstFiringCheck ==
    (entry = "check_hallucination" /\ pc = "returned") =>
        LET original_len   == Len(strip(whisper.text))
            translated_len == Len(strip(chat))
            ratio      == /\ original_len > 0
                          /\ \/ translated_len > 3 * original_len
                             \/ 10 * translated_len < 3 * original_len
            keyword    == \E k \in config.HALLUCINATION_KEYWORDS :
                              contains(lower(k), lower(chat))
            identical  == /\ original_len > 20
                          /\ lower(strip(whisper.text)) = lower(strip(chat))
            words      == split(chat)
            windows    == {SubSeq(words, i, i + 2) : i \in 1..(Len(words) - 2)}
            repetition == /\ Len(words) > 5
                          /\ 10 * Cardinality(windows) < 7 * (Len(words) - 2)
            reason     == ret[1].reason
        IN  /\ ret[1].is_hallucination <=> (ratio \/ keyword \/ identical \/ repetition)
            /\ ret[1].is_hallucination <=> reason # None
            /\ ratio =>
                  /\ reason # None
                  /\ reason[1][1] \in {"Translation suspiciously long (ratio: ",
                                       "Translation suspiciously short (ratio: "}
            /\ (~ratio /\ keyword) =>
                  reason # None /\ reason[1][1] = "Hallucination keyword detected: '"
            /\ (~ratio /\ ~keyword /\ identical) =>
                  reason = Some(<<"Translation identical to original">>)
            /\ (~ratio /\ ~keyword /\ ~identical /\ repetition) =>
                  reason = Some(<<"Excessive repetition detected">>)

\* a translation that is both too long and has a keyword, flagged as long
C17_LongBeforeKeyword ==
    /\ entry = "check_hallucination"
    /\ pc = "returned"
    /\ strip(whisper.text) = <<"H", "i">>
    /\ contains(<<"s", "u", "b", "s", "c", "r", "i", "b", "e">>, chat)
    /\ ret # None
    /\ ret[1].reason # None
    /\ ret[1].reason[1][1] = "Translation suspiciously long (ratio: "

\* C18 as stated: with the lengths those of the two texts as they are
\* passed, a pair with a non-empty original is flagged as long exactly when
\* the translation is more than 3.0 times as long and as short exactly when
\* it is less than 0.3 times as long, and a pair with an empty original is
\* flagged as neither.
C18_RatioOfLengths ==
    (entry = "check_hallucination" /\ pc = "returned") =>
        LET original_len   == Len(whisper.text)
            translated_len == Len(chat)
            reason == ret[1].reason
            long   == /\ reason # None
                      /\ reason[1][1] = "Translation suspiciously long (ratio: "
            short  == /\ reason # None
                      /\ reason[1][1] = "Translation suspiciously short (ratio: "
        IN  IF original_len > 0
            THEN /\ long <=> translated_len > 3 * original_len
                 /\ short <=> 10 * translated_len < 3 * original_len
            ELSE ~long /\ ~short

\* C18 amended: the same with the lengths those of the two texts after
\* their leading and trailing whitespace is removed, the check being
\* skipped when nothing of the original is left.
C18_RatioOfTrimmedLengths ==
    (entry = "check_hallucination" /\ pc = "returned") =>
        LET original_len   == Len(strip(whisper.text))
            translated_len == Len(strip(chat))
            reason == ret[1].reason
            long   == /\ reason # None
                      /\ reason[1][1] = "Translation suspiciously long (ratio: "
            short  == /\ reason # None
                      /\ reason[1][1] = "Translation suspiciously short (ratio: "
        IN  IF original_len > 0
            THEN /\ long <=> translated_len > 3 * original_len
                 /\ short <=> 10 * translated_len < 3 * original_len
            ELSE ~long /\ ~short

\* a padded pair whose trimmed lengths are in the ratio 3.0 exactly, not
\* flagged
C18_RatioExactlyThree ==
    /\ entry = "check_hallucination"
    /\ pc = "returned"
    /\ Len(strip(whisper.text)) = 2
    /\ Len(whisper.text) > 2
    /\ Len(strip(chat)) = 6
    /\ ret = Some([is_hallucination |-> FALSE, reason |-> None])

\* C19: a pair the length-ratio check does not flag is flagged for a
\* keyword exactly when the translation, lowercased, contains a keyword of
\* the configuration, and the reason then quotes a keyword the translation
\* contains.
C19_KeywordInTranslation ==
    (entry = "check_hallucination" /\ pc = "returned") =>
        LET original_len   == Len(strip(whisper.text))
            translated_len == Len(strip(chat))
            ratio   == /\ original_len > 0
                       /\ \/ translated_len > 3 * original_len
                          \/ 10 * translated_len < 3 * original_len
            found   == {k \in config.HALLUCINATION_KEYWORDS :
                           contains(lower(k), lower(chat))}
            reason  == ret[1].reason
            flagged == /\ reason # None
                       /\ reason[1][1] = "Hallucination keyword detected: '"
        IN  ~ratio =>
              /\ flagged <=> found # {}
              /\ flagged => /\ ret[1].is_hallucination
                             /\ \E k \in found :
                                   reason = Some(<<"Hallucination keyword detected: '">>
                                                 \o k \o <<"'">>)

\* a translation with a keyword in capitals, flagged with the shorter of the
\* two keywords it contains
C19_CapitalsFlagged ==
    /\ entry = "check_hallucination"
    /\ pc = "returned"
    /\ contains(<<"P", "L", "E", "A", "S", "E", " ",
                  "S", "U", "B", "S", "C", "R", "I", "B", "E">>, chat)
    /\ ret # None
    /\ ret[1].reason = Some(<<"Hallucination keyword detected: '">>
                            \o <<"s", "u", "b", "s", "c", "r", "i", "b", "e">>
                            \o <<"'">>)

\* C20 as stated: a pair the two earlier checks do not flag is flagged as
\* identical exactly when the original has more than 20 characters and the
\* two texts are equal once lowercased and with every run of whitespace,
\* inside the text or around it, brought to one form.
C20_IdenticalUpToWhitespace ==
    (entry = "check_hallucination" /\ pc = "returned") =>
        LET original_len   == Len(strip(whisper.text))
            translated_len == Len(strip(chat))
            ratio   == /\ original_len > 0
                       /\ \/ translated_len > 3 * original_len
                          \/ 10 * translated_len < 3 * original_len
            keyword == \E k \in config.HALLUCINATION_KEYWORDS :
                           contains(lower(k), lower(chat))
            flagged == ret[1].reason = Some(<<"Translation identical to original">>)
        IN  (~ratio /\ ~keyword) =>
              ( flagged <=> /\ Len(whisper.text) > 20
                            /\ join(split(lower(whisper.text))) = join(split(lower(chat))) )

\* C20 amended: such a pair is flagged as identical exactly when the
\* original without its leading and trailing whitespace has more than 20
\* characters and the two texts are equal once lowercased and without
\* their leading and trailing whitespace.
C20_IdenticalUpToTrimming ==
    (entry = "check_hallucination" /\ pc = "returned") =>
        LET original_len   == Len(strip(whisper.text))
            translated_len == Len(strip(chat))
            ratio   == /\ original_len > 0
                       /\ \/ translated_len > 3 * original_len
                          \/ 10 * translated_len < 3 * original_len
            keyword == \E k \in config.HALLUCINATION_KEYWORDS :
                           contains(lower(k), lower(chat))
            flagged == ret[1].reason = Some(<<"Translation identical to original">>)
        IN  (~ratio /\ ~keyword) =>
              ( flagged <=> /\ original_len > 20
                            /\ lower(strip(whisper.text)) = lower(strip(chat)) )

\* texts that differ in letter case and in the spaces around them, flagged
C20_CaseAndPaddingDiffer ==
    /\ entry = "check_hallucination"
    /\ pc = "returned"
    /\ lower(whisper.text) # lower(chat)
    /\ strip(whisper.text) # strip(chat)
    /\ ret = Some([is_hallucination |-> TRUE,
                   reason |-> Some(<<"Translation identical to original">>)])

\* C21: a pair the three earlier checks do not flag is flagged for
\* repetition exactly when the translation has n > 5 tokens between
\* whitespace and fewer than 0.7 * (n - 2) distinct windows of three
\* consecutive tokens; 5 tokens or fewer are never flagged for repetition,
\* and one word eight times (6 windows, 1 distinct) is.
C21_RepetitionOfWindows ==
    (entry = "check_hallucination" /\ pc = "returned") =>
        LET original_len   == Len(strip(whisper.text))
            translated_len == Len(strip(chat))
            ratio     == /\ original_len > 0
                         /\ \/ translated_len > 3 * original_len
                            \/ 10 * translated_len < 3 * original_len
            keyword   == \E k \in config.HALLUCINATION_KEYWORDS :
                             contains(lower(k), lower(chat))
            identical == /\ original_len > 20
                         /\ lower(strip(whisper.text)) = lower(strip(chat))
            tokens    == split(chat)
            n         == Len(tokens)
            windows   == {<<tokens[i], tokens[i + 1], tokens[i + 2]>> : i \in 1..(n - 2)}
            flagged   == ret[1].reason = Some(<<"Excessive repetition detected">>)
        IN  /\ (~ratio /\ ~keyword /\ ~identical) =>
                  (flagged <=> (n > 5 /\ 10 * Cardinality(windows) < 7 * (n - 2)))
            /\ n <= 5 => ~flagged
            /\ strip(chat) = <<"w", "o", "r", "d", " ", "w", "o", "r", "d", " ",
                               "w", "o", "r", "d", " ", "w", "o", "r", "d", " ",
                               "w", "o", "r", "d", " ", "w", "o", "r", "d", " ",
                               "w", "o", "r", "d", " ", "w", "o", "r", "d">>
                  => (n = 8 /\ Cardinality(windows) = 1 /\ flagged)

\* twelve tokens with 7 distinct windows out of 10, not flagged
C21_SevenOfTenWindows ==
    /\ entry = "check_hallucination"
    /\ pc = "returned"
    /\ Len(split(chat)) = 12
    /\ Cardinality({SubSeq(split(chat), i, i + 2) : i \in 1..10}) = 7
    /\ ret # None
    /\ ret[1] = [is_hallucination |-> FALSE, reason |-> None]

\* C22: two evaluations of check_hallucination on the same texts, language
\* and configuration return the same (is_hallucination, reason), the
\* keyword the reason quotes included.
C22_SameResultTwice ==
    (entry = "check_hallucination" /\ Len(ret) = 2) => ret[1] = ret[2]

\* C23 as stated: validate_text_length accepts a text exactly when its
\* trimmed length is at least MIN_TEXT_LENGTH and at most MAX_TEXT_LENGTH,
\* whatever its length with the whitespace around it, and rejects empty and
\* whitespace-only texts as too short.
C23_TrimmedLengthInRange ==
    (entry = "validate_text_length" /\ pc = "returned") =>
        LET trimmed == Len(strip(whisper.text))
        IN  /\ ret[1].is_valid <=> /\ trimmed >= config.MIN_TEXT_LENGTH
                                    /\ trimmed <= config.MAX_TEXT_LENGTH
            /\ trimmed = 0 => ret[1].error_msg = Some(<<"Text too short or empty">>)

\* C23 amended: validate_text_length accepts a text exactly when its
\* trimmed length is at least MIN_TEXT_LENGTH and its length as passed is
\* at most MAX_TEXT_LENGTH; a text below the minimum is rejected as too
\* short, the empty and the whitespace-only text included, and any other
\* text longer than the maximum as exceeding it.
C23_TrimmedMinimumRawMaximum ==
    (entry = "validate_text_length" /\ pc = "returned") =>
        LET trimmed == Len(strip(whisper.text))
            raw     == Len(whisper.text)
        IN  /\ ret[1].is_valid <=> /\ trimmed >= config.MIN_TEXT_LENGTH
                                    /\ raw <= config.MAX_TEXT_LENGTH
            /\ ret[1].is_valid => ret[1].error_msg = None
            /\ trimmed < config.MIN_TEXT_LENGTH =>
                  ret[1].error_msg = Some(<<"Text too short or empty">>)
            /\ (trimmed >= config.MIN_TEXT_LENGTH /\ raw > config.MAX_TEXT_LENGTH) =>
                  /\ ret[1].error_msg # None
                  /\ ret[1].error_msg[1][1] = "Text exceeds maximum length of "

\* a text of 8 characters with a space before it, rejected for a maximum
\* of 8
C23_PaddedTextRejected ==
    /\ entry = "validate_text_length"
    /\ pc = "returned"
    /\ config.MAX_TEXT_LENGTH = 8
    /\ Len(strip(whisper.text)) = 8
    /\ Len(whisper.text) > 8
    /\ ret # None
    /\ ~ret[1].is_valid

\* C24: when the trimmed transcript fails the length check, the result is a
\* failure whose detected_language is the label as the transcription gave
\* it and whose original_text is the trimmed transcript, without
\* translated_text, target_language and audio_bytes.
C24_LengthFailureKeepsRawLabel ==
    ( /\ pc = "done"
      /\ transcription # None
      /\ ~validate_text_length(config, strip(whisper.text)).is_valid )
    => /\ ~result[1].success
       /\ result[1].detected_language = Some(whisper.language)
       /\ result[1].original_text = Some(strip(whisper.text))
       /\ result[1].translated_text = None
       /\ result[1].target_language = None
       /\ result[1].audio_bytes = None

\* C25: for a valid file and a transcript of acceptable length labelled as
\* English (Italian), the translation request is sent, and its arguments
\* are the trimmed transcript, the name of the source language and the name
\* of the target language ("English" and "Italian"), not their codes.
C25_TranslateGetsNames ==
    \A lang \in {ENGLISH, ITALIAN} :
        ( /\ pc = "done"
          /\ validate(config, audio_file).is_valid
          /\ transcription # None
          /\ validate_text_length(config, strip(whisper.text)).is_valid
          /\ lower(whisper.language) \in {lang.code, lower(lang.name)} )
        => /\ attempts["translate"] >= 1
           /\ translate_kwargs(strip(whisper.text), lang.code,
                               get_target_language(lang.code).name)
                = [text        |-> strip(whisper.text),
                   source_lang |-> lang.name,
                   target_lang |-> IF lang = ENGLISH THEN ITALIAN.name ELSE ENGLISH.name]

\* C26: the result returned for an exception does not depend on the text of
\* the exception, nor, for exhausted retries, on the text of the last
\* attempt's exception: it is the result returned for the same exception
\* with any other text, and no piece of its message is that text.
C26_FailureHidesExceptionText ==
    caught # None =>
        /\ pc = "done"
        /\ result # None
        /\ \A t \in {"provider message 1", "provider message 2"} :
              /\ result = except([caught[1] EXCEPT !.text = t])
              /\ caught[1].last_attempt # None =>
                    result = except(RetryError([caught[1].last_attempt[1] EXCEPT !.text = t]))
        /\ \A i \in 1..Len(result[1].error_message[1]) :
              /\ result[1].error_message[1][i] # caught[1].text
              /\ caught[1].last_attempt # None =>
                    result[1].error_message[1][i] # caught[1].last_attempt[1].text

\* three failed attempts whose exceptions had different texts
C26_ExhaustedWithTwoTexts ==
    /\ pc = "done"
    /\ caught # None
    /\ caught[1].cls = "RetryError"
    /\ caught[1].last_attempt # None
    /\ caught[1].last_attempt[1].text = "provider message 2"
    /\ Len(errors) = 3
    /\ errors[1].exc.text = "provider message 1"

\* C27: when the transcription request answers, at the first attempt or
\* after one or two attempts that failed, process_translation goes on from
\* the same transcription to the same result, having sent the same later
\* requests (none): what follows the answer does not depend on the
\* attempts that failed before it.
C27_RecoveredLikeFirstTry ==
    (pc = "done" /\ attempts["transcribe"] = Len(errors) + 1) =>
        /\ transcription = Some(whisper)
        /\ caught = lookup_from_name_or_code
        /\ result = except(lookup_from_name_or_code[1])
        /\ attempts["translate"] = 0
        /\ attempts["tts"] = 0
        /\ stages = <<"Validating", "Transcribing", "Done">>

\* the transcription request answered at its third attempt
C27_AnsweredAtThirdAttempt ==
    /\ pc = "done"
    /\ Len(errors) = 2
    /\ attempts["transcribe"] = 3
    /\ Len(sleeps) = 2
    /\ transcription # None
    /\ result # None

\* C28: a call whose every attempt fails with a retryable error is
\* attempted exactly config.MAX_RETRIES times.
C28_AttemptsFromConfig ==
    ( /\ pc = "raised"
      /\ raised # None
      /\ raised[1].cls = "RetryError" )
    => attempts[entry] = config.MAX_RETRIES

\* C29: no result of process_translation is the failure for an unsupported
\* language, whatever label the transcription has: the only values lines
\* 133 and 136 give detected_language are the codes of the members of
\* LanguageCode, and validate_language_detection accepts each of them.
C29_NeverUnsupportedLanguage ==
    /\ (result # None /\ result[1].error_message # None) =>
          \A i \in 1..Len(result[1].error_message[1]) :
              result[1].error_message[1][i] # "Unsupported language detected: "
    /\ \A i \in 1..Len(LanguageCode) :
          validate_language_detection(config, LanguageCode[i].code, None)
              = [is_valid |-> TRUE, error_msg |-> None]
    /\ \A i \in 1..Len(stages) : stages[i] # "ResolvingLanguages"

\* a transcription labelled with no supported language has been handled
C29_RussianLabelHandled ==
    /\ pc = "done"
    /\ transcription # None
    /\ whisper.language = <<"r", "u", "s", "s", "i", "a", "n">>
    /\ result # None
    /\ ~result[1].success

\* C30: for a file with a filename, an allowed content type and an allowed
\* extension, MAX_FILE_SIZE_MB * 1024 * 1024 bytes are accepted, one byte
\* more is rejected as too large and 0 bytes are rejected as empty.
C30_FileSizeBoundary ==
    ( /\ entry = "validate"
      /\ pc = "returned"
      /\ audio_file.filename \in {<<"t", "e", "s", "t", ".", "m", "p", "3">>,
                                  <<"T", "E", "S", "T", ".", "M", "P", "3">>}
      /\ audio_file.content_type = "audio/mpeg" )
    => /\ audio_file.size = 25 * 1024 * 1024 =>
             ret = Some([is_valid |-> TRUE, error_msg |-> None])
       /\ audio_file.size = 25 * 1024 * 1024 + 1 =>
             ret = Some([is_valid |-> FALSE,
                         error_msg |-> Some(<<"File too large: ",
                                              "2", "5", ".", "0", "0", "MB">>)])
       /\ audio_file.size = 0 =>
             ret = Some([is_valid |-> FALSE,
                         error_msg |-> Some(<<"Audio file is empty">>)])

\* a file of exactly the maximum size was accepted
C30_MaximumSizeAccepted ==
    /\ entry = "validate"
    /\ pc = "returned"
    /\ audio_file.size = config.MAX_FILE_SIZE_MB * 1024 * 1024
    /\ ret # None
    /\ ret[1].is_valid

\* C31: validate_language_detection accepts exactly when the code is one of
\* en, it, es, fr, de and the confidence, if one is given, is not below
\* MIN_CONFIDENCE_SCORE; any other string is rejected as unsupported
\* whatever the confidence, and a supported code with a confidence below
\* the floor is rejected for its low confidence.
C31_LanguageThenConfidence ==
    (entry = "validate_language_detection" /\ pc = "returned") =>
        LET supported == whisper.language \in {<<"e", "n">>, <<"i", "t">>, <<"e", "s">>,
                                               <<"f", "r">>, <<"d", "e">>}
            enough    == confidence = None \/ confidence[1] >= config.MIN_CONFIDENCE_SCORE
        IN  /\ ret # None
            /\ ret[1].is_valid <=> (supported /\ enough)
            /\ ret[1].is_valid => ret[1].error_msg = None
            /\ ~supported =>
                  ret[1].error_msg
                      = Some(<<"Unsupported language detected: ">> \o whisper.language)
            /\ (supported /\ ~enough) =>
                  /\ ret[1].error_msg # None
                  /\ ret[1].error_msg[1][1] = "Low confidence: "

\* an unsupported code with a confidence below the floor was rejected as
\* unsupported
C31_UnsupportedBeforeConfidence ==
    /\ entry = "validate_language_detection"
    /\ pc = "returned"
    /\ whisper.language = <<"r", "u">>
    /\ confidence = Some(50)
    /\ ret # None
    /\ ret[1].error_msg = Some(<<"Unsupported language detected: ", "r", "u">>)

\* C32: of the invocations in progress together, any two that have returned
\* after the same file, the same answers and the same errors of the
\* provider have returned the same result after the same requests and the
\* same sleeps, however their steps were interleaved (one of them may have
\* run from start to end before any other started); and a step of the
\* running invocation changes neither the locals of another invocation nor
\* the configuration.
C32_InvocationsIndependent ==
    /\ [](LET all == <<locals>> \o others
              input(f) == <<f.audio_file.filename, f.audio_file.content_type,
                            f.audio_file.size, f.whisper, f.chat, f.speech, f.errors>>
          IN  \A i, j \in 1..Len(all) :
                  (all[i].pc = "done" /\ all[j].pc = "done"
                      /\ input(all[i]) = input(all[j]))
                  => all[i] = all[j])
    /\ [][(\E i \in 1..Len(others) : Switch(i))
             \/ (others' = others /\ config' = config)]_vars

\* two invocations have returned after the same two errors of the provider
\* while a third is suspended between its attempts
C32_AloneAndInterleaved ==
    /\ entry = "process_translation"
    /\ Len(others) >= 2
    /\ pc = "done"
    /\ Len(errors) = 2
    /\ others[1].pc = "done"
    /\ others[1].errors = errors
    /\ others[1].audio_file.size = audio_file.size
    /\ others[1].whisper = whisper
    /\ others[1].result = result
    /\ others[2].pc \in {"calling", "sleeping"}

\* C33: every invocation of process_translation whose requests each return
\* or raise comes to return a result; it returns once (nothing happens
\* after the return), and it has then sent at most 3 requests for each
\* remote operation, at most 9 in all.
C33_ReturnsAfterBoundedAttempts ==
    /\ <>(pc = "done" /\ result # None)
    /\ [][pc # "done" /\ (pc' = "done" => result' # None)]_vars
    /\ [](/\ \A op \in Ops : attempts[op] <= 3
          /\ attempts["transcribe"] + attempts["translate"] + attempts["tts"] <= 9
          /\ Len(sleeps) <= 6
          /\ pc # "raised")

\* process_translation returned after the third request of an operation
\* failed, having slept twice
C33_ReturnedAfterThreeAttempts ==
    /\ entry = "process_translation"
    /\ pc = "done"
    /\ result # None
    /\ attempts["transcribe"] = 3
    /\ Len(errors) = 3
    /\ Len(sleeps) = 2

\* C34: in every result process_translation returns, whether the pipeline
\* ran or one of its return statements is taken on its own:
\* hallucination_detected implies not success and requires_retry; a
\* translated_text comes with an original_text and a detected_language; a
\* target_language comes with a translated_text; requires_retry implies
\* not success, with an original_text and a detected_language.
C34_FieldsConsistent ==
    result # None =>
        LET r == result[1]
        IN  /\ r.hallucination_detected => (~r.success /\ r.requires_retry)
            /\ r.translated_text # None =>
                  (r.original_text # None /\ r.detected_language # None)
            /\ r.target_language # None => r.translated_text # None
            /\ r.requires_retry =>
                  (~r.success /\ r.original_text # None /\ r.detected_language # None)

\* the result for a flagged translation was returned
C34_FlaggedResultReturned ==
    /\ entry = "process_translation"
    /\ pc = "done"
    /\ result # None
    /\ result[1].hallucination_detected
    /\ result[1].requires_retry
    /\ ~result[1].success
    /\ result[1].translated_text # None
    /\ result[1].target_language # None

\* C35: the response of /translate.  Without an 'audio' part: status 400
\* and process_translation was not called.  For a failure: status 400 if
\* requires_retry and 500 otherwise, 500 in particular for an empty file;
\* the body holds error, requires_retry and hallucination_detected, and
\* detected_language and original_text with the result's values exactly
\* when the result has a non-empty one.  For a success: the audio bytes,
\* with the four X- headers carrying the two texts and the two languages.
C35_ResponseOfResult ==
    (pc = "responded" /\ request # None) =>
        /\ response # None
        /\ IF "audio" \notin request[1].files
           THEN /\ response[1].status = 400
                /\ response[1].json = Some("error" :> Some(<<"No audio file provided">>))
                /\ result = None
                /\ stages = <<>>
                /\ \A op \in Ops : attempts[op] = 0
           ELSE /\ result # None
                /\ LET r    == result[1]
                       body == response[1].json
                       head == response[1].headers
                   IN  IF ~r.success
                       THEN /\ response[1].status = 400 <=> r.requires_retry
                            /\ response[1].status = 500 <=> ~r.requires_retry
                            /\ audio_file.size = 0 => response[1].status = 500
                            /\ response[1].data = None
                            /\ body # None
                            /\ {"error", "requires_retry", "hallucination_detected"}
                                  \subseteq DOMAIN body[1]
                            /\ DOMAIN body[1] \subseteq
                                  {"error", "requires_retry", "hallucination_detected",
                                   "detected_language", "original_text"}
                            /\ body[1]["error"] = r.error_message
                            /\ body[1]["requires_retry"] = r.requires_retry
                            /\ body[1]["hallucination_detected"] = r.hallucination_detected
                            /\ "detected_language" \in DOMAIN body[1] <=>
                                  (r.detected_language # None /\ r.detected_language[1] # <<>>)
                            /\ "detected_language" \in DOMAIN body[1] =>
                                  body[1]["detected_language"] = r.detected_language
                            /\ "original_text" \in DOMAIN body[1] <=>
                                  (r.original_text # None /\ r.original_text[1] # <<>>)
                            /\ "original_text" \in DOMAIN body[1] =>
                                  body[1]["original_text"] = r.original_text
                       ELSE /\ response[1].status = 200
                            /\ response[1].json = None
                            /\ response[1].data # None
                            /\ response[1].data = r.audio_bytes
                            /\ {"X-Original-Text", "X-Translated-Text",
                                 "X-Detected-Language", "X-Target-Language"}
                                  \subseteq DOMAIN head
                            /\ head["X-Original-Text"] = r.original_text
                            /\ head["X-Translated-Text"] = r.translated_text
                            /\ head["X-Detected-Language"] = r.detected_language
                            /\ head["X-Target-Language"] = r.target_language
                            /\ \A h \in {"X-Original-Text", "X-Translated-Text",
                                          "X-Detected-Language", "X-Target-Language"} :
                                  head[h] # None

\* a request whose 'audio' part is an empty file was answered with 500
C35_EmptyFileIs500 ==
    /\ pc = "responded"
    /\ request = Some([files |-> {"audio"}])
    /\ audio_file.size = 0
    /\ stages = <<"Validating", "Done">>
    /\ response # None
    /\ response[1].status = 500
    /\ response[1].json # None
    /\ response[1].json[1]["error"] = Some(<<"Audio file is empty">>)
    /\ response[1].json[1]["requires_retry"] = FALSE

====
